---------------------------- MODULE Spec2Model ----------------------------
(***************************************************************************)
(* django-eidas-specific-node, connector side: the light-token codec, the  *)
(* service-provider request handler, the connector response handler and    *)
(* the light storage they share.                                           *)
(*                                                                         *)
(* Strings are sequences of one-character strings, so that joining,        *)
(* splitting and byte changes of a wire token are computed, not assumed.   *)
(* Time is counted in clock ticks; the wire timestamp keeps one unit per   *)
(* TicksPerStamp ticks and a minute is TicksPerMinute ticks.               *)
(***************************************************************************)
EXTENDS Integers, Sequences, FiniteSets, TLC

(* ------------------------------ bounds --------------------------------- *)
\* last clock tick the model follows
MaxTime == 3
\* clock ticks per unit of the wire timestamp (the clock is finer than the wire)
TicksPerStamp == 2
\* clock ticks per minute
TicksPerMinute == 2
\* identifiers uuid4 can hand out
MaxUuid == 2
\* the posts followed in one run: each takes the next number of LOG_ID_SERIES
MaxLogId == 3
\* the calls followed on one IgniteStorage instance
MaxOps == 3
(* ------------------------------ strings -------------------------------- *)
None == "None"

Digits == <<"0", "1", "2", "3", "4", "5", "6", "7", "8", "9">>

DigitChars == {Digits[i] : i \in 1..10}

DigitValue(c) == (CHOOSE i \in 1..10 : Digits[i] = c) - 1

\* a character outside ASCII, as an inbound XML document may carry
NonAscii == "e_acute"

IsAscii(s) == \A i \in 1..Len(s) : s[i] # NonAscii

\* the token field delimiter
Delimiter == "|"

RECURSIVE Join(_)
Join(parts) ==
    IF Len(parts) = 0 THEN << >>
    ELSE IF Len(parts) = 1 THEN parts[1]
    ELSE parts[1] \o <<Delimiter>> \o Join(Tail(parts))

\* str.split(delimiter): the empty string gives one (empty) part
RECURSIVE Split(_)
Split(s) ==
    IF \A i \in 1..Len(s) : s[i] # Delimiter THEN <<s>>
    ELSE LET k == CHOOSE i \in 1..Len(s) :
                      s[i] = Delimiter /\ \A j \in 1..(i - 1) : s[j] # Delimiter
         IN  <<SubSeq(s, 1, k - 1)>> \o Split(SubSeq(s, k + 1, Len(s)))

StartsWith(s, prefix) ==
    Len(s) >= Len(prefix) /\ SubSeq(s, 1, Len(prefix)) = prefix

(* ------------------------------- errors -------------------------------- *)
\* EidasNodeError and its subclasses; anything else is not an EidasNodeError
EidasNodeErrors == {"ParseError", "SecurityError", "ValidationError"}

Raise(kind, msg) == [ok |-> FALSE, kind |-> kind, msg |-> msg]

Return(v) == [ok |-> TRUE, value |-> v]

(* ----------------------------- LightToken ------------------------------ *)
TOKEN_ID_PREFIX == <<"T">>

LightToken(id, issuer, created) == [id |-> id, issuer |-> issuer, created |-> created]

\* the timestamp as written on the wire: zero padded, precision of one stamp unit
format_created(created) ==
    LET n == created \div TicksPerStamp
    IN  <<Digits[((n \div 10) % 10) + 1], Digits[(n % 10) + 1]>>

parse_created(s) ==
    IF Len(s) = 2 /\ s[1] \in DigitChars /\ s[2] \in DigitChars
    THEN Return((DigitValue(s[1]) * 10 + DigitValue(s[2])) * TicksPerStamp)
    ELSE Raise("ParseError", "Token has invalid timestamp")

\* keyed digest over id, issuer and the canonical timestamp. The digest is written
\* as the sequence of what it was computed from (an ideal keyed hash: two digests
\* agree only if algorithm, key and all three fields agree); ":" frames the fields.
LightToken_digest(token, hash_algorithm, secret) ==
    <<hash_algorithm, secret>> \o token.id \o <<":">> \o token.issuer \o <<":">>
        \o format_created(token.created)

LightToken_encode(token, hash_algorithm, secret) ==
    Join(<<token.id, token.issuer, format_created(token.created),
           LightToken_digest(token, hash_algorithm, secret)>>)

LightToken_decode_unchecked(encoded, hash_algorithm, secret) ==
    LET parts == Split(encoded)
    IN  IF Len(parts) # 4 THEN Raise("ParseError", "Token has wrong number of parts")
        ELSE LET created == parse_created(parts[3])
             IN  IF ~created.ok THEN created
                 ELSE IF parts[1] = << >> \/ parts[2] = << >>
                 THEN Raise("ValidationError", "Token field is empty")
                 ELSE Return(LightToken(parts[1], parts[2], created.value))

LightToken_decode(encoded, hash_algorithm, secret) ==
    LET parts == Split(encoded)
        fields == LightToken_decode_unchecked(encoded, hash_algorithm, secret)
    IN  IF ~fields.ok THEN fields
        ELSE IF parts[4] # LightToken_digest(fields.value, hash_algorithm, secret)
        THEN Raise("SecurityError", "Light token has invalid digest")
        ELSE fields

create_xml_uuid(prefix, uuid4) == prefix \o uuid4

\* Optional[int]: << >> is None, <<n>> is the integer n
NoLifetime == << >>

Truthy(optional_int) == optional_int # << >> /\ optional_int[1] # 0

timedelta_minutes(optional_int) == optional_int[1] * TicksPerMinute

\* create_light_token encoding the token under its own, fixed secret
create_light_token_own_secret(issuer, hash_algorithm, secret, uuid4, datetime_utcnow) ==
    LET token == LightToken(create_xml_uuid(TOKEN_ID_PREFIX, uuid4), issuer, datetime_utcnow)
    IN  <<token, LightToken_encode(token, hash_algorithm, "own")>>

create_light_token_no_prefix(issuer, hash_algorithm, secret, uuid4, datetime_utcnow) ==
    LET token == LightToken(uuid4, issuer, datetime_utcnow)
    IN  <<token, LightToken_encode(token, hash_algorithm, secret)>>

\* ServiceProviderRequestView.create_light_token: <<token, encoded token>>
create_light_token(issuer, hash_algorithm, secret, uuid4, datetime_utcnow) ==
    LET token == LightToken(create_xml_uuid(TOKEN_ID_PREFIX, uuid4), issuer, datetime_utcnow)
    IN  <<token, LightToken_encode(token, hash_algorithm, secret)>>

\* ConnectorResponseView.get_light_token; encoded_token is the POST parameter,
\* the empty string when the parameter is absent
get_light_token_no_issuer_check(encoded_token, issuer, hash_algorithm, secret, lifetime, datetime_now) ==
    LET token == LightToken_decode(encoded_token, hash_algorithm, secret)
    IN  IF ~token.ok THEN token
        ELSE IF Truthy(lifetime) /\ token.value.created + timedelta_minutes(lifetime) < datetime_now
        THEN Raise("SecurityError", "Token has expired")
        ELSE token

get_light_token_expiry_first(encoded_token, issuer, hash_algorithm, secret, lifetime, datetime_now) ==
    LET token == LightToken_decode(encoded_token, hash_algorithm, secret)
    IN  IF ~token.ok THEN token
        ELSE IF Truthy(lifetime) /\ token.value.created + timedelta_minutes(lifetime) < datetime_now
        THEN Raise("SecurityError", "Token has expired")
        ELSE IF token.value.issuer # issuer
        THEN Raise("SecurityError", "Invalid token issuer")
        ELSE token

get_light_token_no_expiry_check(encoded_token, issuer, hash_algorithm, secret, lifetime, datetime_now) ==
    LET token == LightToken_decode(encoded_token, hash_algorithm, secret)
    IN  IF ~token.ok THEN token
        ELSE IF token.value.issuer # issuer
        THEN Raise("SecurityError", "Invalid token issuer")
        ELSE token

get_light_token(encoded_token, issuer, hash_algorithm, secret, lifetime, datetime_now) ==
    LET token == LightToken_decode(encoded_token, hash_algorithm, secret)
    IN  IF ~token.ok THEN token
        ELSE IF token.value.issuer # issuer
        THEN Raise("SecurityError", "Invalid token issuer")
        ELSE IF Truthy(lifetime) /\ token.value.created + timedelta_minutes(lifetime) < datetime_now
        THEN Raise("SecurityError", "Token has expired")
        ELSE token

(* --------------------------- light requests ---------------------------- *)
\* eidas_node.attributes.MANDATORY_ATTRIBUTE_NAMES
MANDATORY_ATTRIBUTE_NAMES == {"B", "C"}

\* a dict as a function; dict_without(d, keys) is d after `del d[key]` for each key
dict_without(d, keys) == [k \in (DOMAIN d) \ keys |-> d[k]]

dict_with_default(d, keys, value) ==
    [k \in (DOMAIN d) \cup keys |-> IF k \in DOMAIN d THEN d[k] ELSE value]

\* adjust_requested_attributes that never filters
adjust_requested_attributes_no_filter(attributes, allowed_attributes) ==
    dict_with_default(attributes, MANDATORY_ATTRIBUTE_NAMES \ DOMAIN attributes, << >>)

\* adjust_requested_attributes that adds the mandatory names only when it filters
adjust_requested_attributes_no_mandatory(attributes, allowed_attributes) ==
    IF allowed_attributes # {}
    THEN dict_with_default(dict_without(attributes, (DOMAIN attributes) \ allowed_attributes),
                           MANDATORY_ATTRIBUTE_NAMES, << >>)
    ELSE attributes

\* adjust_requested_attributes that filters against an empty allow-list as well
adjust_requested_attributes_filter_always(attributes, allowed_attributes) ==
    LET filtered == dict_without(attributes, (DOMAIN attributes) \ allowed_attributes)
    IN  dict_with_default(filtered, MANDATORY_ATTRIBUTE_NAMES \ DOMAIN filtered, << >>)

\* adjust_requested_attributes that decides which mandatory names are missing
\* before it filters
adjust_requested_attributes_missing_first(attributes, allowed_attributes) ==
    LET missing == MANDATORY_ATTRIBUTE_NAMES \ DOMAIN attributes
        unsupported_attributes == (DOMAIN attributes) \ allowed_attributes
        filtered == IF allowed_attributes # {}
                    THEN dict_without(attributes, unsupported_attributes)
                    ELSE attributes
    IN  dict_with_default(filtered, missing, << >>)

\* ServiceProviderRequestView.adjust_requested_attributes: the dict after the call
adjust_requested_attributes(attributes, allowed_attributes) ==
    LET unsupported_attributes == (DOMAIN attributes) \ allowed_attributes
        filtered == IF allowed_attributes # {}
                    THEN dict_without(attributes, unsupported_attributes)
                    ELSE attributes
    IN  dict_with_default(filtered, MANDATORY_ATTRIBUTE_NAMES \ DOMAIN filtered, << >>)

\* hmac.compare_digest on str: only ASCII strings may be compared
hmac_compare_digest(a, b) ==
    IF IsAscii(a) /\ IsAscii(b) THEN Return(a = b)
    ELSE Raise("TypeError", "comparing strings with non-ASCII characters is not supported")

\* SAMLRequest.create_light_request: the light request as the document states it
saml_create_light_request(saml_request) ==
    [id |-> saml_request.id, issuer |-> saml_request.issuer,
     requested_attributes |-> saml_request.requested_attributes,
     valid |-> saml_request.valid]

create_light_request_keep_issuer(saml_request, saml_issuer, light_issuer) ==
    LET request == saml_create_light_request(saml_request)
        same == hmac_compare_digest(request.issuer, saml_issuer)
    IN  IF request.issuer = << >> THEN Raise("SecurityError", "Invalid SAML request issuer")
        ELSE IF ~same.ok THEN same
        ELSE IF ~same.value THEN Raise("SecurityError", "Invalid SAML request issuer")
        ELSE Return(request)

\* ServiceProviderRequestView.create_light_request; an absent issuer (None) and an
\* empty one are both falsy and both written << >>
create_light_request(saml_request, saml_issuer, light_issuer) ==
    LET request == saml_create_light_request(saml_request)
        same == hmac_compare_digest(request.issuer, saml_issuer)
    IN  IF request.issuer = << >> THEN Raise("SecurityError", "Invalid SAML request issuer")
        ELSE IF ~same.ok THEN same
        ELSE IF ~same.value THEN Raise("SecurityError", "Invalid SAML request issuer")
        ELSE Return([request EXCEPT !.issuer = light_issuer])

(* ------------------------------ settings ------------------------------- *)
REQUEST_TOKEN_ISSUER == <<"Q">>

RESPONSE_TOKEN_ISSUER == <<"R">>

\* CONNECTOR_REQUEST_TOKEN
request_token_settings ==
    [issuer |-> REQUEST_TOKEN_ISSUER, hash_algorithm |-> "sha256", secret |-> "s1"]

\* CONNECTOR_RESPONSE_TOKEN as a deployment may set it: the docker settings give the
\* response token its own issuer and secret; sharing them with the request token
\* is the configuration a token round trip between the two views needs
ResponseTokenSettings ==
    [issuer : {REQUEST_TOKEN_ISSUER, RESPONSE_TOKEN_ISSUER},
     hash_algorithm : {"sha256"},
     secret : {"s1", "s2"},
     lifetime : {NoLifetime, <<0>>, <<1>>}]

\* CONNECTOR_RESPONSE_TOKEN of the docker settings ('LIFETIME': 10 minutes)
docker_response_token ==
    [issuer |-> RESPONSE_TOKEN_ISSUER, hash_algorithm |-> "sha256", secret |-> "s2",
     lifetime |-> <<10>>]

\* CONNECTOR_SERVICE_PROVIDER['REQUEST_ISSUER'] and CONNECTOR_EIDAS_NODE['REQUEST_ISSUER']
service_provider_request_issuer == <<"S", "P">>

eidas_node_request_issuer == <<"N">>

service_provider_response_issuer == <<"I">>

\* Optional[Dict] options of create_saml_response: None, or a dict whose file entries
\* are paths; "" is an entry that is missing or empty (options.get gives a falsy value)
NoOptions == [is_none |-> TRUE, key_file |-> "", cert_file |-> ""]

\* CONNECTOR_SERVICE_PROVIDER['RESPONSE_SIGNATURE']
SignatureOptions ==
    {NoOptions} \cup [is_none : {FALSE}, key_file : {"", "key.pem"}, cert_file : {"", "cert.pem"}]

\* CONNECTOR_SERVICE_PROVIDER['RESPONSE_ENCRYPTION']
EncryptionOptions ==
    {NoOptions} \cup [is_none : {FALSE}, key_file : {""}, cert_file : {"", "cert.pem"}]

ServiceProviderSettings ==
    [response_signature : SignatureOptions, response_encryption : EncryptionOptions]

\* CONNECTOR_SERVICE_PROVIDER of the docker settings: a signing key and certificate,
\* no encryption
docker_service_provider ==
    [response_signature |-> [is_none |-> FALSE, key_file |-> "key.pem", cert_file |-> "cert.pem"],
     response_encryption |-> NoOptions]

\* CONNECTOR_ALLOWED_ATTRIBUTES: empty (no filtering) or an allow-list
AllowedAttributeSettings == {{}, {"A", "B"}}

\* CONNECTOR_LIGHT_STORAGE['BACKEND']: the class in storage/ignite.py, or a class
\* that implements the whole LightStorage interface
Backends == {"IgniteStorage", "LightStorage"}

\* offset of the process's local time zone from UTC, in ticks
TimeZones == {0 - TicksPerMinute, 0, TicksPerMinute}

\* handler instances that may be in flight at once, per view
Ops == {"a", "b"}

\* the keys a light response may be stored under
ResponseKeys == {create_xml_uuid(TOKEN_ID_PREFIX, <<Digits[i]>>) : i \in 1..MaxUuid}

(* ------------------------------- state --------------------------------- *)
VARIABLES
    now,               \* the UTC clock, in ticks
    tz,                \* local time minus UTC, in ticks
    response_token,    \* CONNECTOR_SETTINGS.response_token
    allowed_attributes,\* CONNECTOR_SETTINGS.allowed_attributes
    backend,           \* CONNECTOR_SETTINGS.light_storage['backend']
    service_provider,  \* CONNECTOR_SETTINGS.service_provider: response_signature, response_encryption
    uuids,             \* how many identifiers uuid4 has handed out
    request_cache,     \* the Ignite cache of light requests: key -> serialised request
    response_cache,    \* the Ignite cache of light responses
    delivered,         \* per key, the views that obtained its response since it was last stored
    sp,                \* the ServiceProviderRequestView instances
    cr,                \* the ConnectorResponseView instances
    ip,                \* the IdentityProviderResponseView instances (proxy service)
    flight,            \* one encoded token followed on its way between the views
    log_id_series,     \* LOG_ID_SERIES: the last number the module-level series handed out
    ignite             \* one IgniteStorage instance and the threads that call it

config == <<tz, response_token, allowed_attributes, backend, service_provider>>

vars == <<now, tz, response_token, allowed_attributes, backend, service_provider, uuids, request_cache,
          response_cache, delivered, sp, cr, ip, flight, log_id_series, ignite>>

datetime_utcnow == now

datetime_now == now + tz

uuid4 == <<Digits[uuids + 1]>>

NoToken == LightToken(<< >>, << >>, 0)

NoResult == Raise("", "")

NoRequest == [id |-> << >>, issuer |-> << >>, requested_attributes |-> << >>, valid |-> FALSE]

NoResponse == [id |-> << >>, issuer |-> << >>, in_response_to_id |-> << >>]

EmptyCache == << >>

(* ---------------------------- light storage ---------------------------- *)
\* the serialised form kept in the cache, and reading it back
dump_xml(model) == <<"xml", model>>

load_xml(data) == data[2]

cache_get(cache, uid) == IF uid \in DOMAIN cache THEN <<cache[uid]>> ELSE << >>

cache_put(cache, uid, data) == [k \in (DOMAIN cache) \cup {uid} |-> IF k = uid THEN data ELSE cache[k]]

cache_remove(cache, uid) == [k \in (DOMAIN cache) \ {uid} |-> cache[k]]

\* the methods class IgniteStorage defines
IgniteStorageMethods ==
    {"get_cache", "get_light_request", "get_light_response", "put_light_request",
     "put_light_response"}

\* attribute lookup on the storage instance get_light_storage created
storage_has_method(backend_class, method) ==
    IF backend_class = "IgniteStorage" THEN method \in IgniteStorageMethods ELSE TRUE

put_light_request_keep_first(cache, uid, request) ==
    IF uid \in DOMAIN cache THEN cache ELSE cache_put(cache, uid, dump_xml(request))

\* IgniteStorage.put_light_request: the request cache after the call
put_light_request(cache, uid, request) == cache_put(cache, uid, dump_xml(request))

\* IgniteStorage.put_light_response
put_light_response(cache, uid, response) == cache_put(cache, uid, dump_xml(response))

\* IgniteStorage.get_light_response: << >> is None
get_light_response_from(cache, uid) ==
    LET data == cache_get(cache, uid)
    IN  IF data # << >> THEN <<load_xml(data[1])>> ELSE << >>

\* LightStorage.pop_light_response: <<the response or None, the cache after the call>>
pop_light_response(cache, uid) ==
    <<get_light_response_from(cache, uid), cache_remove(cache, uid)>>

(* ---------------------------- LOG_ID_SERIES ---------------------------- *)
\* WrappedSeries.next on LOG_ID_SERIES: <<the number handed out, the series after>>
series_next(series) == <<series + 1, series + 1>>

\* post, first line: self.log_id = LOG_ID_SERIES.next()
take_log_id(view) == [view EXCEPT !.log_id = series_next(log_id_series)[1]]

(* -------------------- ServiceProviderRequestView ----------------------- *)
NoSAMLRequest ==
    [fault |-> "none", id |-> << >>, issuer |-> << >>, requested_attributes |-> << >>,
     valid |-> FALSE]

IdleSP ==
    [pc |-> "idle", saml_request |-> NoSAMLRequest, light_request |-> NoRequest,
     light_token |-> NoToken, encoded_token |-> << >>, raised |-> NoResult,
     failed_in |-> None, error |-> None, status |-> 0, context |-> {},
     store_calls |-> << >>, log_id |-> 0]

\* what the service provider may post: `fault` is what get_saml_request makes of
\* the POST data (a missing country parameter, a document that does not parse, a
\* signature that does not verify); `valid` is whether the light request derived
\* from the document passes the model validation of export_xml
SAMLRequests ==
    [fault : {"none", "MultiValueDictKeyError", "ParseError", "SecurityError"},
     id : {<<"_", "r">>},
     issuer : {<< >>, service_provider_request_issuer, <<"E", "V">>, <<NonAscii>>},
     requested_attributes : {[k \in {"A", "X"} |-> <<"v">>], [k \in {"B"} |-> <<"v">>]},
     valid : BOOLEAN]

get_saml_request(posted) ==
    IF posted.fault = "none" THEN Return(posted) ELSE Raise(posted.fault, "")

\* the template context of ServiceProviderRequestView: the keys it holds
sp_get_context_data(view) ==
    {"error"} \cup (IF view.encoded_token # << >>
                    THEN {"eidas_url", "token", "token_parameter"} ELSE {})

\* the except clause of post: (EidasNodeError, MultiValueDictKeyError) gives the
\* error page with status 400, any other exception leaves the view (status 500)
sp_fail_catch_all(view, method, raised) ==
    LET failed == [view EXCEPT !.pc = "done", !.raised = raised, !.failed_in = method,
                               !.error = "Bad service provider request.", !.status = 400]
    IN  [failed EXCEPT !.context = sp_get_context_data(failed)]

\* the except clause of post: EidasNodeError and MultiValueDictKeyError give the
\* error page with status 400, any other exception leaves the view (status 500)
sp_fail(view, method, raised) ==
    LET caught == raised.kind \in EidasNodeErrors \cup {"MultiValueDictKeyError"}
        failed == [view EXCEPT !.pc = "done", !.raised = raised, !.failed_in = method,
                               !.error = IF caught THEN "Bad service provider request."
                                         ELSE None,
                               !.status = IF caught THEN 400 ELSE 500]
    IN  [failed EXCEPT !.context = IF caught THEN sp_get_context_data(failed) ELSE {}]

sp_post_token_first(view, posted, allowed, uuid, utcnow) ==
    LET saml_request == get_saml_request(posted)
        light_request == create_light_request(posted, service_provider_request_issuer,
                                              eidas_node_request_issuer)
        adjusted == [light_request.value EXCEPT !.requested_attributes =
                         adjust_requested_attributes(@, allowed)]
        made == create_light_token(request_token_settings.issuer,
                                   request_token_settings.hash_algorithm,
                                   request_token_settings.secret, uuid, utcnow)
        tokened == [view EXCEPT !.light_token = made[1], !.encoded_token = made[2]]
    IN  IF ~saml_request.ok THEN sp_fail(tokened, "get_saml_request", saml_request)
        ELSE IF ~light_request.ok
        THEN sp_fail([tokened EXCEPT !.saml_request = posted], "create_light_request", light_request)
        ELSE [tokened EXCEPT !.pc = "token_issued", !.saml_request = posted,
                             !.light_request = adjusted]

\* post up to the created token: get_saml_request, create_light_request,
\* adjust_requested_attributes, create_light_token; the view after these lines
sp_post_begin(view, posted, allowed, uuid, utcnow) ==
    LET saml_request == get_saml_request(posted)
        light_request == create_light_request(posted, service_provider_request_issuer,
                                              eidas_node_request_issuer)
        adjusted == [light_request.value EXCEPT !.requested_attributes =
                         adjust_requested_attributes(@, allowed)]
        made == create_light_token(request_token_settings.issuer,
                                   request_token_settings.hash_algorithm,
                                   request_token_settings.secret, uuid, utcnow)
    IN  IF ~saml_request.ok THEN sp_fail(view, "get_saml_request", saml_request)
        ELSE IF ~light_request.ok
        THEN sp_fail([view EXCEPT !.saml_request = posted], "create_light_request", light_request)
        ELSE [view EXCEPT !.pc = "token_issued", !.saml_request = posted,
                          !.light_request = adjusted, !.light_token = made[1],
                          !.encoded_token = made[2]]

put_key_request_id(view) == view.light_request.id

\* the key of put_light_request in post
put_key(view) == view.light_token.id

SPReceive(p, posted) ==
    /\ sp[p].pc = "idle"
    /\ log_id_series < MaxLogId
    /\ uuids < MaxUuid \/ sp_post_begin(sp[p], posted, allowed_attributes, uuid4, datetime_utcnow).light_token = NoToken
    /\ sp' = [sp EXCEPT ![p] = sp_post_begin(take_log_id(@), posted, allowed_attributes, uuid4, datetime_utcnow)]
    /\ log_id_series' = series_next(log_id_series)[2]
    /\ uuids' = IF sp'[p].light_token # NoToken THEN uuids + 1 ELSE uuids
    /\ UNCHANGED <<now, config, request_cache, response_cache, delivered, cr, flight, ip, ignite>>

\* post from get_light_storage on: put_light_request, then the response.
\* get_cache connects first (the backend may be out of reach), then export_xml
\* validates the request it serialises, then the cache is written.
SPStore(p, reachable) ==
    /\ sp[p].pc = "token_issued"
    /\ LET connected == [sp[p] EXCEPT !.store_calls = Append(@, <<"connect">>)]
       IN  IF ~reachable
           THEN /\ sp' = [sp EXCEPT ![p] = sp_fail(connected, "put_light_request", Raise("StoreError", "backend out of reach"))]
                /\ UNCHANGED request_cache
           ELSE IF ~sp[p].light_request.valid
           THEN /\ sp' = [sp EXCEPT ![p] = sp_fail(connected, "put_light_request", Raise("ValidationError", "Invalid light request"))]
                /\ UNCHANGED request_cache
           ELSE /\ request_cache' = put_light_request(request_cache, put_key(sp[p]), sp[p].light_request)
                /\ LET stored == [connected EXCEPT !.pc = "done", !.status = 200,
                                      !.store_calls = Append(@, <<"put_light_request", put_key(sp[p]),
                                                               sp[p].light_request>>)]
                   IN  sp' = [sp EXCEPT ![p] = [stored EXCEPT !.context = sp_get_context_data(stored)]]
    /\ UNCHANGED <<now, config, uuids, response_cache, delivered, cr, flight, ip, log_id_series, ignite>>

\* the view instance is discarded with its request
SPReset(p) ==
    /\ sp[p].pc = "done"
    /\ sp' = [sp EXCEPT ![p] = IdleSP]
    /\ UNCHANGED <<now, config, uuids, request_cache, response_cache, delivered, cr, flight, ip, log_id_series, ignite>>

(* ----------------------- ConnectorResponseView -------------------------- *)
IdleCR ==
    [pc |-> "idle", encoded_token |-> << >>, light_token |-> NoToken,
     light_response |-> NoResponse, saml_response |-> FALSE, saml_steps |-> << >>,
     raised |-> NoResult,
     error |-> None, status |-> 0, store_calls |-> << >>, log_id |-> 0]

\* the except clause of post: EidasNodeError gives the error page with status 400,
\* any other exception leaves the view (status 500)
cr_fail(view, raised) ==
    LET caught == raised.kind \in EidasNodeErrors
    IN  [view EXCEPT !.pc = "done", !.raised = raised,
                     !.error = IF caught THEN "Bad connector response." ELSE None,
                     !.status = IF caught THEN 400 ELSE 500]

get_light_response_accept_none(popped) == Return(IF popped = << >> THEN NoResponse ELSE popped[1])

\* ConnectorResponseView.get_light_response, given what pop_light_response returned
get_light_response(popped) ==
    IF popped = << >> THEN Raise("SecurityError", "Response not found in light storage.")
    ELSE Return(popped[1])

reaches_store_always(token_result) == TRUE

\* post: the lines after get_light_token run only if it returned
reaches_store(token_result) == token_result.ok

\* post up to the checked token: get_light_token on the posted parameter
CRReceive(p, encoded_token) ==
    /\ cr[p].pc = "idle"
    /\ log_id_series < MaxLogId
    /\ log_id_series' = series_next(log_id_series)[2]
    /\ LET token == get_light_token(encoded_token, response_token.issuer,
                                    response_token.hash_algorithm, response_token.secret,
                                    response_token.lifetime, datetime_now)
           received == [take_log_id(cr[p]) EXCEPT !.encoded_token = encoded_token]
       IN  IF reaches_store(token)
           THEN cr' = [cr EXCEPT ![p] = [received EXCEPT !.pc = "token_ok",
                                              !.light_token = IF token.ok THEN token.value ELSE NoToken]]
           ELSE cr' = [cr EXCEPT ![p] = cr_fail(received, token)]
    /\ UNCHANGED <<now, config, uuids, request_cache, response_cache, delivered, sp, ip, ignite>>

\* post from get_light_storage to get_light_response: the one store call of the view
CRPop(p, reachable) ==
    /\ cr[p].pc = "token_ok"
    /\ LET uid == cr[p].light_token.id
           called == [cr[p] EXCEPT !.store_calls = Append(@, <<"pop_light_response", uid>>)]
           popped == pop_light_response(response_cache, uid)
           response == get_light_response(popped[1])
       IN  IF ~storage_has_method(backend, "pop_light_response")
           THEN /\ cr' = [cr EXCEPT ![p] = cr_fail(cr[p], Raise("AttributeError",
                                 "IgniteStorage has no attribute pop_light_response"))]
                /\ UNCHANGED <<response_cache, delivered>>
           ELSE IF ~reachable
           THEN /\ cr' = [cr EXCEPT ![p] = cr_fail([cr[p] EXCEPT !.store_calls = Append(@, <<"connect">>)],
                                                   Raise("StoreError", "backend out of reach"))]
                /\ UNCHANGED <<response_cache, delivered>>
           ELSE /\ response_cache' = popped[2]
                /\ delivered' = IF popped[1] # << >> /\ uid \in ResponseKeys
                                THEN [delivered EXCEPT ![uid] = IF @ < 2 THEN @ + 1 ELSE @]
                                ELSE delivered
                /\ IF response.ok
                   THEN cr' = [cr EXCEPT ![p] = [called EXCEPT !.pc = "popped",
                                                               !.light_response = response.value]]
                   ELSE cr' = [cr EXCEPT ![p] = cr_fail(called, response)]
    /\ UNCHANGED <<now, config, uuids, request_cache, sp, flight, ip, log_id_series, ignite>>

\* the calls create_saml_response makes on the SAML adapter, in order, when the
\* options ask for the second and the third one
saml_steps_sign_first(sign, encrypt) ==
    <<"from_light_response">> \o (IF sign THEN <<"sign_response">> ELSE << >>)
                              \o (IF encrypt THEN <<"encrypt_assertion">> ELSE << >>)

saml_steps(sign, encrypt) ==
    <<"from_light_response">> \o (IF encrypt THEN <<"encrypt_assertion">> ELSE << >>)
                              \o (IF sign THEN <<"sign_response">> ELSE << >>)

\* the steps made when the adapter call named by fault raises: those up to it
steps_until(steps, fault) ==
    IF \E i \in 1..Len(steps) : steps[i] = fault
    THEN SubSeq(steps, 1, CHOOSE i \in 1..Len(steps) : steps[i] = fault)
    ELSE steps

AdapterFaults == {"none", "from_light_response", "encrypt_assertion", "sign_response"}

\* ConnectorResponseView.create_saml_response: the light response with the issuer
\* replaced, the adapter calls made, and the response or the error of the adapter
create_saml_response(light_response, issuer, signature_options, encryption_options, fault) ==
    LET sign == ~signature_options.is_none /\ signature_options.key_file # ""
                    /\ signature_options.cert_file # ""
        encrypt == ~encryption_options.is_none /\ encryption_options.cert_file # ""
        steps == saml_steps(sign, encrypt)
        made == steps_until(steps, fault)
        failed == \E i \in 1..Len(steps) : steps[i] = fault
    IN  [light_response |-> [light_response EXCEPT !.issuer = issuer],
         steps |-> made,
         result |-> IF failed THEN Raise("SecurityError", "Cannot build the SAML response")
                    ELSE Return(TRUE)]

\* post, create_saml_response: the adapter builds, encrypts and signs the document,
\* or fails with an EidasNodeError
CRRespond(p, fault) ==
    /\ cr[p].pc = "popped"
    /\ LET made == create_saml_response(cr[p].light_response, service_provider_response_issuer,
                                        service_provider.response_signature,
                                        service_provider.response_encryption, fault)
           called == [cr[p] EXCEPT !.light_response = made.light_response,
                                   !.saml_steps = made.steps]
       IN  IF made.result.ok
           THEN cr' = [cr EXCEPT ![p] = [called EXCEPT !.pc = "done", !.saml_response = TRUE,
                                                       !.status = 200]]
           ELSE cr' = [cr EXCEPT ![p] = cr_fail(called, made.result)]
    /\ UNCHANGED <<now, config, uuids, request_cache, response_cache, delivered, sp, flight, ip, log_id_series, ignite>>

CRReset(p) ==
    /\ cr[p].pc = "done"
    /\ cr' = [cr EXCEPT ![p] = IdleCR]
    /\ UNCHANGED <<now, config, uuids, request_cache, response_cache, delivered, sp, flight, ip, log_id_series, ignite>>

(* ------------- IdentityProviderResponseView (proxy service) ------------ *)
\* PROXY_SERVICE_RESPONSE_TOKEN and the issuer the proxy service gives its light
\* responses
proxy_response_token == [issuer |-> <<"P">>, hash_algorithm |-> "sha256", secret |-> "s3"]

proxy_service_response_issuer == <<"O">>

\* IgniteStorage.get_light_request: << >> is None
get_light_request_from(cache, uid) ==
    LET data == cache_get(cache, uid)
    IN  IF data # << >> THEN <<load_xml(data[1])>> ELSE << >>

NoSAMLResponse == [fault |-> "none", id |-> << >>, issuer |-> << >>, in_response_to_id |-> << >>]

IdleIP ==
    [pc |-> "idle", saml_response |-> NoSAMLResponse, light_response |-> NoResponse,
     light_request |-> NoRequest, light_token |-> NoToken, encoded_token |-> << >>,
     raised |-> NoResult, failed_in |-> None, error |-> None, status |-> 0,
     context |-> {}, store_calls |-> << >>, log_id |-> 0]

\* the keys under which the eIDAS node stores light requests for the proxy service:
\* the ids of its request tokens
RequestKeys == {<<"r">>, <<"T", "r">>}

\* the in-response-to ids an identity provider may send: a request key with the
\* prefix, a request key as it is, the prefix alone
InResponseToIds == {TOKEN_ID_PREFIX \o k : k \in RequestKeys} \cup {<<"r">>, TOKEN_ID_PREFIX}

SAMLResponses ==
    [fault : {"none", "ParseError"}, id : {<<"_", "i">>}, issuer : {<<"I", "P">>},
     in_response_to_id : InResponseToIds]

\* IdentityProviderResponseView.get_saml_response
get_saml_response(posted) ==
    IF posted.fault = "none" THEN Return(posted) ELSE Raise(posted.fault, "")

\* SAMLResponse.create_light_response
saml_create_light_response(saml_response) ==
    [id |-> saml_response.id, issuer |-> saml_response.issuer,
     in_response_to_id |-> saml_response.in_response_to_id]

has_token_prefix_always(in_response_to_id) == TRUE

\* create_light_response: in_response_to_id.startswith(TOKEN_ID_PREFIX)
has_token_prefix(in_response_to_id) == StartsWith(in_response_to_id, TOKEN_ID_PREFIX)

request_key_verbatim(in_response_to_id) == in_response_to_id

\* create_light_response: the key of the stored light request is the in-response-to
\* id without the prefix
request_key(in_response_to_id) ==
    SubSeq(in_response_to_id, Len(TOKEN_ID_PREFIX) + 1, Len(in_response_to_id))

pair_response_keep(response, request) == response

\* create_light_response: the response refers to the id of the light request read
\* from the store
pair_response(response, request) == [response EXCEPT !.in_response_to_id = request.id]

rewrite_response_id_keep(response, token) == response

\* create_light_token of the response view: the light response takes the token's id
rewrite_response_id(response, token) == [response EXCEPT !.id = token.id]

\* the template context of IdentityProviderResponseView: the keys it holds
ip_get_context_data(view) ==
    {"error"} \cup (IF view.encoded_token # << >>
                    THEN {"eidas_url", "token", "token_parameter"} ELSE {})

\* the except clause of post
ip_fail(view, method, raised) ==
    LET caught == raised.kind \in EidasNodeErrors
        failed == [view EXCEPT !.pc = "done", !.raised = raised, !.failed_in = method,
                               !.error = IF caught THEN "Bad proxy service request." ELSE None,
                               !.status = IF caught THEN 400 ELSE 500]
    IN  [failed EXCEPT !.context = IF caught THEN ip_get_context_data(failed) ELSE {}]

\* post up to the lookup: get_saml_response, then create_light_response up to the
\* check of the in-response-to id
ip_post_begin(view, posted, issuer) ==
    LET saml_response == get_saml_response(posted)
        response == [saml_create_light_response(posted) EXCEPT !.issuer = issuer]
        received == [view EXCEPT !.saml_response = posted]
    IN  IF ~saml_response.ok THEN ip_fail(view, "get_saml_response", saml_response)
        ELSE IF ~has_token_prefix(response.in_response_to_id)
        THEN ip_fail(received, "create_light_response",
                     Raise("SecurityError", "Invalid in-response-to id"))
        ELSE [received EXCEPT !.pc = "lookup", !.light_response = response]

IPReceive(p, posted) ==
    /\ ip[p].pc = "idle"
    /\ log_id_series < MaxLogId
    /\ log_id_series' = series_next(log_id_series)[2]
    /\ ip' = [ip EXCEPT ![p] = ip_post_begin(take_log_id(@), posted, proxy_service_response_issuer)]
    /\ UNCHANGED <<now, config, uuids, request_cache, response_cache, delivered, sp, cr, flight, ignite>>

\* create_light_response from the lookup on: get_light_request under the request
\* key, the pairing, then create_light_token, which gives the response its id
IPGet(p, reachable) ==
    /\ ip[p].pc = "lookup"
    /\ LET key == request_key(ip[p].light_response.in_response_to_id)
           got == get_light_request_from(request_cache, key)
           connected == [ip[p] EXCEPT !.store_calls = Append(@, <<"connect">>)]
           called == [connected EXCEPT !.store_calls =
                          Append(@, <<"get_light_request", key, got # << >>>>)]
           made == create_light_token(proxy_response_token.issuer,
                                      proxy_response_token.hash_algorithm,
                                      proxy_response_token.secret, uuid4, datetime_utcnow)
       IN  IF ~reachable
           THEN /\ ip' = [ip EXCEPT ![p] = ip_fail(connected, "create_light_response",
                                                   Raise("StoreError", "backend out of reach"))]
                /\ UNCHANGED uuids
           ELSE IF got = << >>
           THEN /\ ip' = [ip EXCEPT ![p] = ip_fail(called, "create_light_response",
                                 Raise("SecurityError", "Cannot pair light response and request"))]
                /\ UNCHANGED uuids
           ELSE /\ uuids < MaxUuid
                /\ uuids' = uuids + 1
                /\ ip' = [ip EXCEPT ![p] =
                             [called EXCEPT !.pc = "token_issued",
                                            !.light_request = got[1],
                                            !.light_response =
                                                rewrite_response_id(
                                                    pair_response(@, got[1]), made[1]),
                                            !.light_token = made[1],
                                            !.encoded_token = made[2]]]
    /\ UNCHANGED <<now, config, request_cache, response_cache, delivered, sp, cr, flight, log_id_series, ignite>>

\* post: put_light_response under the token's id, then the response
IPPut(p, reachable) ==
    /\ ip[p].pc = "token_issued"
    /\ IF ~reachable
       THEN /\ ip' = [ip EXCEPT ![p] = ip_fail(@, "put_light_response",
                                               Raise("StoreError", "backend out of reach"))]
            /\ UNCHANGED response_cache
       ELSE /\ response_cache' = put_light_response(response_cache, ip[p].light_token.id,
                                                    ip[p].light_response)
            /\ LET stored == [ip[p] EXCEPT !.pc = "done", !.status = 200,
                                  !.store_calls = Append(@, <<"put_light_response",
                                                           ip[p].light_token.id,
                                                           ip[p].light_response>>)]
               IN  ip' = [ip EXCEPT ![p] = [stored EXCEPT !.context = ip_get_context_data(stored)]]
    /\ UNCHANGED <<now, config, uuids, request_cache, delivered, sp, cr, flight, log_id_series, ignite>>

IPReset(p) ==
    /\ ip[p].pc = "done"
    /\ ip' = [ip EXCEPT ![p] = IdleIP]
    /\ UNCHANGED <<now, config, uuids, request_cache, response_cache, delivered, sp, cr, flight, log_id_series, ignite>>

\* the eIDAS node stores a light request under the id of the request token it sent
NodeStoresRequest(uid) ==
    /\ uid \notin DOMAIN request_cache
    /\ request_cache' = put_light_request(request_cache, uid,
                             [id |-> <<"q">> \o uid, issuer |-> <<"N">>,
                              requested_attributes |-> << >>, valid |-> TRUE])
    /\ UNCHANGED <<now, config, uuids, response_cache, delivered, sp, cr, ip, flight, log_id_series, ignite>>

(* ----------------- one IgniteStorage instance, its callers --------------- *)
Threads == {"t1", "t2"}

\* CONNECTOR_LIGHT_STORAGE['OPTIONS']: request_cache_name, response_cache_name
request_cache_name == "specificNodeConnectorRequestCache"

response_cache_name == "nodeSpecificConnectorResponseCache"

NoOp == [method |-> None, uid |-> << >>, model |-> << >>]

IdleThread == [pc |-> "idle", op |-> NoOp, result |-> NoResult]

\* IgniteStorage.__init__: the fields are set, _client is None (0), nothing is
\* called on pyignite; `calls` is what has been called on the Client class and on
\* the clients, `ops` counts the calls made on the instance
IgniteStorage_init ==
    [client |-> 0, created |-> 0, calls |-> << >>, ops |-> 0,
     thread |-> [t \in Threads |-> IdleThread]]

\* what the callers store
SampleRequest(uid) ==
    [id |-> <<"_", "r">> \o uid, issuer |-> <<"N">>, requested_attributes |-> << >>,
     valid |-> TRUE]

SampleResponse(uid) == [id |-> uid, issuer |-> <<"N">>, in_response_to_id |-> <<"_", "r">>]

\* the key the callers use, and the two versions of what they store under it
StorageKeys == {create_xml_uuid(TOKEN_ID_PREFIX, <<"0">>)}

Versions == {<<"0">>, <<"1">>}

\* the calls a thread may make on the instance
StorageOps ==
    [method : {"get_light_request", "get_light_response"}, uid : StorageKeys,
     model : {<< >>}]
    \cup {[method |-> "put_light_request", uid |-> uid, model |-> <<SampleRequest(v)>>] :
             uid \in StorageKeys, v \in Versions}
    \cup {[method |-> "put_light_response", uid |-> uid, model |-> <<SampleResponse(v)>>] :
             uid \in StorageKeys, v \in Versions}

cache_name_request_only(method) == request_cache_name

\* the cache name each method passes to get_cache
cache_name(method) ==
    IF method \in {"get_light_request", "put_light_request"} THEN request_cache_name
    ELSE response_cache_name

\* a thread enters one of the four methods, which calls get_cache
IgBegin(t, op) ==
    /\ ignite.thread[t].pc = "idle"
    /\ ignite.ops < MaxOps
    /\ ignite' = [ignite EXCEPT !.ops = @ + 1,
                                !.thread[t] = [pc |-> "check", op |-> op, result |-> NoResult]]
    /\ UNCHANGED <<now, config, uuids, request_cache, response_cache, delivered, sp, cr, ip,
                   flight, log_id_series>>

\* get_cache: if self._client is None
IgCheck(t) ==
    /\ ignite.thread[t].pc = "check"
    /\ ignite' = [ignite EXCEPT !.thread[t].pc = IF ignite.client = 0 THEN "create" ELSE "access"]
    /\ UNCHANGED <<now, config, uuids, request_cache, response_cache, delivered, sp, cr, ip,
                   flight, log_id_series>>

\* get_cache: self._client = Client(timeout=self.timeout)
IgCreate(t) ==
    /\ ignite.thread[t].pc = "create"
    /\ ignite' = [ignite EXCEPT !.created = @ + 1, !.client = ignite.created + 1,
                                !.calls = Append(@, <<"Client", ignite.created + 1>>),
                                !.thread[t].pc = "connect"]
    /\ UNCHANGED <<now, config, uuids, request_cache, response_cache, delivered, sp, cr, ip,
                   flight, log_id_series>>

\* get_cache: self._client.connect(self.host, self.port), which may fail
IgConnect(t, reachable) ==
    /\ ignite.thread[t].pc = "connect"
    /\ ignite' = [ignite EXCEPT !.calls = Append(@, <<"connect", ignite.client>>),
                                !.thread[t].pc = IF reachable THEN "access" ELSE "idle",
                                !.thread[t].result =
                                    IF reachable THEN NoResult
                                    ELSE Raise("StoreError", "backend out of reach")]
    /\ UNCHANGED <<now, config, uuids, request_cache, response_cache, delivered, sp, cr, ip,
                   flight, log_id_series>>

\* get_cache: return self._client.get_cache(cache_name), and the get or put the
\* method makes on the cache it was given
IgAccess(t) ==
    /\ ignite.thread[t].pc = "access"
    /\ LET op == ignite.thread[t].op
           name == cache_name(op.method)
           cache == IF name = request_cache_name THEN request_cache ELSE response_cache
           got == IF op.method = "get_light_request"
                  THEN get_light_request_from(cache, op.uid)
                  ELSE get_light_response_from(cache, op.uid)
           after == IF op.method = "put_light_request"
                    THEN put_light_request(cache, op.uid, op.model[1])
                    ELSE IF op.method = "put_light_response"
                    THEN put_light_response(cache, op.uid, op.model[1])
                    ELSE cache
           is_get == op.method \in {"get_light_request", "get_light_response"}
       IN  /\ ignite' = [ignite EXCEPT
                            !.calls = @ \o <<<<"get_cache", ignite.client, name>>,
                                             IF is_get THEN <<"get", name, op.uid>>
                                             ELSE <<"put", name, op.uid, dump_xml(op.model[1])>>>>,
                            !.thread[t].pc = "idle",
                            !.thread[t].result = Return(IF is_get THEN got ELSE << >>)]
           /\ request_cache' = IF name = request_cache_name THEN after ELSE request_cache
           /\ response_cache' = IF name = response_cache_name THEN after ELSE response_cache
    /\ UNCHANGED <<now, config, uuids, delivered, sp, cr, ip, flight, log_id_series>>

(* ----------------------------- environment ----------------------------- *)
\* the eIDAS node stores a light response under the id of the token it then sends
NodeStoresResponse(uid) ==
    /\ response_cache' = put_light_response(response_cache, uid,
                              [id |-> uid, issuer |-> <<"N">>, in_response_to_id |-> <<"_", "r">>])
    /\ response_cache' # response_cache
    /\ delivered' = [delivered EXCEPT ![uid] = 0]
    /\ UNCHANGED <<now, config, uuids, request_cache, sp, cr, flight, ip, log_id_series, ignite>>

\* the encoded tokens a client may post to the response view: tokens of the eIDAS
\* node for each key, stamped at tick 0 or now, tokens under another issuer or
\* another secret, and no token at all
PostedTokens ==
    {<< >>} \cup
    {LightToken_encode(LightToken(uid, issuer, created), "sha256", secret) :
        uid \in ResponseKeys, created \in {0, now},
        issuer \in {response_token.issuer}, secret \in {response_token.secret}} \cup
    {LightToken_encode(LightToken(uid, <<"E", "V">>, now), "sha256", response_token.secret) :
        uid \in ResponseKeys} \cup
    {LightToken_encode(LightToken(uid, response_token.issuer, now), "sha256", "s0") :
        uid \in ResponseKeys}

Tick ==
    /\ now < MaxTime
    /\ now' = now + 1
    /\ UNCHANGED <<config, uuids, request_cache, response_cache, delivered, sp, cr, flight, ip, log_id_series, ignite>>

InitCommon ==
    /\ now = 0
    /\ uuids = 0
    /\ request_cache = EmptyCache
    /\ response_cache = EmptyCache
    /\ delivered = [uid \in ResponseKeys |-> 0]
    /\ sp = [p \in Ops |-> IdleSP]
    /\ cr = [p \in Ops |-> IdleCR]
    /\ ip = [p \in Ops |-> IdleIP]
    /\ log_id_series = 0
    /\ ignite = IgniteStorage_init
    /\ flight = [stage |-> "idle", token |-> NoToken, encoded |-> << >>,
                 changed |-> "none", changed_to |-> "", presented_at |-> 0]

InitRequest ==
    /\ InitCommon
    /\ tz = 0
    /\ response_token = docker_response_token
    /\ allowed_attributes \in AllowedAttributeSettings
    /\ backend = "IgniteStorage"
    /\ service_provider = docker_service_provider

NextRequest ==
    \/ Tick
    \/ \E p \in Ops, posted \in SAMLRequests : SPReceive(p, posted)
    \/ \E p \in Ops, reachable \in BOOLEAN : SPStore(p, reachable)
    \/ \E p \in Ops : SPReset(p)

SpecRequest == InitRequest /\ [][NextRequest]_vars

(* ---------------------- one token, issuance to check ------------------- *)
\* the field of the encoded token that position pos lies in
FieldOf(encoded, pos) ==
    IF encoded[pos] = Delimiter THEN "delimiter"
    ELSE LET n == Cardinality({i \in 1..pos : encoded[i] = Delimiter})
         IN  <<"id", "issuer", "created", "digest">>[n + 1]

TamperChars == {Delimiter, "x", "9"}

\* a token is issued as the request view issues it (create_light_token)
TokenIssue ==
    /\ flight.stage = "idle"
    /\ uuids < MaxUuid
    /\ LET made == create_light_token(request_token_settings.issuer,
                                      request_token_settings.hash_algorithm,
                                      request_token_settings.secret, uuid4, datetime_utcnow)
       IN  flight' = [flight EXCEPT !.stage = "issued", !.token = made[1], !.encoded = made[2]]
    /\ uuids' = uuids + 1
    /\ UNCHANGED <<now, config, request_cache, response_cache, delivered, sp, cr, ip, log_id_series, ignite>>

\* one byte of the encoded token is changed on its way
TokenTamper ==
    /\ flight.stage = "issued"
    /\ flight.changed = "none"
    /\ \E pos \in 1..Len(flight.encoded), c \in TamperChars :
          /\ flight.encoded[pos] # c
          /\ flight' = [flight EXCEPT !.encoded[pos] = c,
                                      !.changed = FieldOf(flight.encoded, pos),
                                      !.changed_to = c]
    /\ UNCHANGED <<now, config, uuids, request_cache, response_cache, delivered, sp, cr, ip, log_id_series, ignite>>

\* the token arrives at the response view, which keeps the tick of its check
TokenPresent(p) ==
    /\ flight.stage = "issued"
    /\ flight' = [flight EXCEPT !.stage = "presented", !.presented_at = now]
    /\ CRReceive(p, flight.encoded)

\* a request with no token parameter arrives
TokenAbsent(p) ==
    /\ flight.stage = "idle"
    /\ flight' = [flight EXCEPT !.stage = "presented", !.presented_at = now]
    /\ CRReceive(p, << >>)

InitToken ==
    /\ InitCommon
    /\ tz \in TimeZones
    /\ response_token \in ResponseTokenSettings
    /\ allowed_attributes = {}
    /\ backend = "LightStorage"
    /\ service_provider = docker_service_provider

NextToken ==
    \/ Tick
    \/ TokenIssue
    \/ TokenTamper
    \/ TokenPresent("a")
    \/ TokenAbsent("a")
    \/ \E reachable \in BOOLEAN : CRPop("a", reachable)

SpecToken == InitToken /\ [][NextToken]_vars

InitResponse ==
    /\ InitCommon
    /\ tz = 0
    /\ response_token = docker_response_token
    /\ allowed_attributes = {}
    /\ backend \in Backends
    /\ service_provider = docker_service_provider

NextResponse ==
    \/ Tick
    \/ \E uid \in ResponseKeys : NodeStoresResponse(uid)
    \/ \E p \in Ops, encoded_token \in PostedTokens : CRReceive(p, encoded_token) /\ UNCHANGED flight
    \/ \E p \in Ops, reachable \in BOOLEAN : CRPop(p, reachable)
    \/ \E p \in Ops, fault \in AdapterFaults : CRRespond(p, fault)
    \/ \E p \in Ops : CRReset(p)

SpecResponse == InitResponse /\ [][NextResponse]_vars

Init == InitCommon /\ tz \in TimeZones /\ response_token \in ResponseTokenSettings
        /\ allowed_attributes \in AllowedAttributeSettings /\ backend \in Backends
        /\ service_provider = docker_service_provider

Next == NextRequest \/ NextResponse

Spec == Init /\ [][Next]_vars

(* ---------------------------- proxy service --------------------------- *)
\* the two caches are here those of the proxy service
InitProxy ==
    /\ InitCommon
    /\ tz = 0
    /\ response_token = docker_response_token
    /\ allowed_attributes = {}
    /\ backend = "IgniteStorage"
    /\ service_provider = docker_service_provider

NextProxy ==
    \/ Tick
    \/ \E uid \in RequestKeys : NodeStoresRequest(uid)
    \/ \E p \in Ops, posted \in SAMLResponses : IPReceive(p, posted)
    \/ \E p \in Ops, reachable \in BOOLEAN : IPGet(p, reachable)
    \/ \E p \in Ops, reachable \in BOOLEAN : IPPut(p, reachable)
    \/ \E p \in Ops : IPReset(p)

SpecProxy == InitProxy /\ [][NextProxy]_vars

(* --------------------------- SAML response ----------------------------- *)
InitSaml ==
    /\ InitCommon
    /\ tz = 0
    /\ response_token = docker_response_token
    /\ allowed_attributes = {}
    /\ backend = "LightStorage"
    /\ service_provider \in ServiceProviderSettings

NextSaml ==
    \/ \E uid \in ResponseKeys : NodeStoresResponse(uid)
    \/ \E encoded_token \in PostedTokens : CRReceive("a", encoded_token) /\ UNCHANGED flight
    \/ \E reachable \in BOOLEAN : CRPop("a", reachable)
    \/ \E fault \in AdapterFaults : CRRespond("a", fault)
    \/ CRReset("a")

SpecSaml == InitSaml /\ [][NextSaml]_vars

(* ------------------------ attribute policy ----------------------------- *)
\* attribute names a request may ask for: allowed only, mandatory, other
AttributeNames == {"A", "B", "C", "X"}

\* SAML requests that pass get_saml_request and create_light_request and ask for
\* any set of attributes
AttributeRequests ==
    {[fault |-> "none", id |-> <<"_", "r">>, issuer |-> service_provider_request_issuer,
      requested_attributes |-> [k \in names |-> <<"v">>], valid |-> TRUE] :
        names \in SUBSET AttributeNames}

InitAttributes ==
    /\ InitCommon
    /\ tz = 0
    /\ response_token = docker_response_token
    /\ allowed_attributes \in SUBSET AttributeNames
    /\ backend = "IgniteStorage"
    /\ service_provider = docker_service_provider

NextAttributes ==
    \/ \E posted \in AttributeRequests : SPReceive("a", posted)
    \/ \E reachable \in BOOLEAN : SPStore("a", reachable)
    \/ SPReset("a")

SpecAttributes == InitAttributes /\ [][NextAttributes]_vars

(* ------- the request view's token taken to the response view ------------ *)
\* a deployment whose CONNECTOR_RESPONSE_TOKEN repeats the issuer, algorithm and
\* secret of CONNECTOR_REQUEST_TOKEN, with a lifetime of one minute
shared_response_token ==
    [issuer |-> request_token_settings.issuer,
     hash_algorithm |-> request_token_settings.hash_algorithm,
     secret |-> request_token_settings.secret, lifetime |-> <<1>>]

\* the token of the page ServiceProviderRequestView rendered (status 200)
IssuedToken == IF sp["a"].pc = "done" /\ sp["a"].status = 200 THEN sp["a"].encoded_token ELSE << >>

\* the client posts the token of the rendered page to ConnectorResponseView
TokenHandover(p) ==
    /\ IssuedToken # << >>
    /\ CRReceive(p, IssuedToken)
    /\ UNCHANGED flight

InitEndToEnd ==
    /\ InitCommon
    /\ tz = 0
    /\ response_token \in {docker_response_token, shared_response_token}
    /\ allowed_attributes = {}
    /\ backend \in Backends
    /\ service_provider = docker_service_provider

NextEndToEnd ==
    \/ Tick
    \/ \E posted \in {r \in SAMLRequests : r.fault = "none" /\ r.valid} : SPReceive("a", posted)
    \/ \E reachable \in BOOLEAN : SPStore("a", reachable)
    \/ \E uid \in ResponseKeys : NodeStoresResponse(uid)
    \/ \E p \in Ops : TokenHandover(p)
    \/ \E p \in Ops, reachable \in BOOLEAN : CRPop(p, reachable)
    \/ \E p \in Ops : CRRespond(p, "none")
    \/ \E p \in Ops : CRReset(p)

SpecEndToEnd == InitEndToEnd /\ [][NextEndToEnd]_vars

(* ------------------- both views and an unreliable store ------------------ *)
InitStore ==
    /\ InitCommon
    /\ tz = 0
    /\ response_token = docker_response_token
    /\ allowed_attributes = {}
    /\ backend \in Backends
    /\ service_provider = docker_service_provider

NextStore ==
    \/ \E posted \in {r \in SAMLRequests : r.valid /\ r.fault \in {"none", "ParseError"}} :
           SPReceive("a", posted)
    \/ \E reachable \in BOOLEAN : SPStore("a", reachable)
    \/ SPReset("a")
    \/ \E uid \in ResponseKeys : NodeStoresResponse(uid)
    \/ \E encoded_token \in PostedTokens : CRReceive("a", encoded_token) /\ UNCHANGED flight
    \/ \E reachable \in BOOLEAN : CRPop("a", reachable)
    \/ CRRespond("a", "none")
    \/ CRReset("a")

SpecStore == InitStore /\ [][NextStore]_vars

(* ---------------- the response view with a short token lifetime ---------- *)
\* CONNECTOR_RESPONSE_TOKEN of the docker settings with 'LIFETIME' set to one minute
short_lived_response_token == [docker_response_token EXCEPT !.lifetime = <<1>>]

InitValidate ==
    /\ InitCommon
    /\ tz = 0
    /\ response_token = short_lived_response_token
    /\ allowed_attributes = {}
    /\ backend = "LightStorage"
    /\ service_provider = docker_service_provider

NextValidate ==
    \/ Tick
    \/ \E uid \in ResponseKeys : NodeStoresResponse(uid)
    \/ \E encoded_token \in PostedTokens : CRReceive("a", encoded_token) /\ UNCHANGED flight
    \/ \E reachable \in BOOLEAN : CRPop("a", reachable)
    \/ \E fault \in AdapterFaults : CRRespond("a", fault)
    \/ CRReset("a")

SpecValidate == InitValidate /\ [][NextValidate]_vars

(* -------------------------- the Ignite storage -------------------------- *)
InitIgnite ==
    /\ InitCommon
    /\ tz = 0
    /\ response_token = docker_response_token
    /\ allowed_attributes = {}
    /\ backend = "IgniteStorage"
    /\ service_provider = docker_service_provider

NextIgnite ==
    \/ \E t \in Threads, op \in StorageOps : IgBegin(t, op)
    \/ \E t \in Threads : IgCheck(t)
    \/ \E t \in Threads : IgCreate(t)
    \/ \E t \in Threads, reachable \in BOOLEAN : IgConnect(t, reachable)
    \/ \E t \in Threads : IgAccess(t)

SpecIgnite == InitIgnite /\ [][NextIgnite]_vars

(* ------------------------------- claims -------------------------------- *)
ResponseNotFound == Raise("SecurityError", "Response not found in light storage.")

\* C1: once a view has obtained the response stored under a key, every later
\* ConnectorResponseView that presents a valid token with that key and whose store
\* call is answered, with no response stored under the key in between, fails with
\* SecurityError 'Response not found in light storage.' and answers with the error
\* response (status 400, error set, no SAML response).
C1_AtMostOnceDelivery ==
    [][\A p \in Ops :
          (/\ cr[p].pc = "token_ok"
           /\ cr'[p].pc # "token_ok"
           /\ cr[p].light_token.id \in ResponseKeys
           /\ delivered[cr[p].light_token.id] > 0
           /\ cr'[p].raised.kind # "StoreError")
          => (/\ cr'[p].pc = "done"
              /\ cr'[p].raised = ResponseNotFound
              /\ cr'[p].status = 400
              /\ cr'[p].error = "Bad connector response."
              /\ ~cr'[p].saml_response
              /\ delivered' = delivered)]_vars

\* C1 witness: a view was refused the response another view had obtained before
C1_Witness ==
    \E p \in Ops :
        /\ cr[p].pc = "done"
        /\ cr[p].raised = ResponseNotFound
        /\ cr[p].light_token.id \in ResponseKeys
        /\ delivered[cr[p].light_token.id] = 1

\* C2 (as claimed): no response is obtained by two views, and the store call a
\* ConnectorResponseView makes once its token is accepted is a read-and-delete that
\* the configured storage backend provides.
C2_AtomicPopByBackend ==
    /\ \A uid \in ResponseKeys : delivered[uid] <= 1
    /\ \A p \in Ops :
          (cr[p].pc \in {"popped", "done"} /\ cr[p].light_token # NoToken)
          => (/\ storage_has_method(backend, "pop_light_response")
              /\ cr[p].raised.kind # "AttributeError")

\* C3 (as claimed): create_light_request raises SecurityError exactly when the
\* inbound issuer is empty or differs from the expected one; then nothing is put and
\* no token is created; otherwise the light request carries the node's own issuer.
C3_IssuerCheckedExactly ==
    \A p \in Ops :
        (sp[p].pc # "idle" /\ sp[p].saml_request # NoSAMLRequest)
        => LET inbound == sp[p].saml_request.issuer
               spoofed == inbound = << >> \/ inbound # service_provider_request_issuer
           IN  /\ spoofed <=> (sp[p].failed_in = "create_light_request"
                               /\ sp[p].raised.kind = "SecurityError")
               /\ spoofed => (sp[p].store_calls = << >> /\ sp[p].light_token = NoToken)
               /\ ~spoofed => sp[p].light_request.issuer = eidas_node_request_issuer

PutsOf(view) ==
    {i \in 1..Len(view.store_calls) : view.store_calls[i][1] = "put_light_request"}

\* C4: a request view that fails in get_saml_request (parsing, verifying), in
\* create_light_request (the issuer check) or in adjust_requested_attributes leaves
\* both caches as they were, has made no store call, and holds neither a light
\* token nor an encoded token; no identifier was drawn for it.
C4_NothingStoredOnEarlyFailure ==
    [][\A p \in Ops :
          (/\ sp[p].pc = "idle"
           /\ sp'[p].failed_in \in {"get_saml_request", "create_light_request",
                                    "adjust_requested_attributes"})
          => (/\ request_cache' = request_cache
              /\ response_cache' = response_cache
              /\ sp'[p].store_calls = << >>
              /\ sp'[p].light_token = NoToken
              /\ sp'[p].encoded_token = << >>
              /\ uuids' = uuids)]_vars

\* C4 witness: a spoofed issuer was refused while a request of another view is stored
C4_Witness ==
    \E p \in Ops :
        /\ sp[p].failed_in = "create_light_request"
        /\ sp[p].status = 400
        /\ sp[p].saml_request.issuer = <<"E", "V">>
        /\ sp[p].light_token = NoToken
        /\ request_cache # EmptyCache

\* C5 (as claimed): a request view that ends with the error response (status 400),
\* whichever step failed, renders a context without 'token', 'eidas_url' and
\* 'token_parameter'.
C5_NoTokenOnErrorPage ==
    \A p \in Ops :
        sp[p].status = 400
        => sp[p].context \cap {"token", "eidas_url", "token_parameter"} = {}

\* C5 failing input: the issuer is the expected one, the derived light request fails
\* validation when put_light_request serialises it
C5_FailingInput ==
    \E p \in Ops :
        /\ sp[p].status = 400
        /\ sp[p].failed_in = "put_light_request"
        /\ "token" \in sp[p].context

\* C6: when post returns the success response with encoded token t, the view made
\* exactly one put_light_request, before the response; its key is the id of t; its
\* payload is the light request with the node's issuer and the adjusted attributes;
\* and the request cache holds that payload under that key.
C6_StoreBeforeHandoff ==
    \A p \in Ops :
        (sp[p].pc = "done" /\ sp[p].status = 200)
        => LET t == LightToken_decode(sp[p].encoded_token,
                                      request_token_settings.hash_algorithm,
                                      request_token_settings.secret)
               puts == PutsOf(sp[p])
           IN  /\ "token" \in sp[p].context
               /\ t.ok
               /\ Cardinality(puts) = 1
               /\ \A i \in puts :
                     /\ sp[p].store_calls[i][2] = t.value.id
                     /\ sp[p].store_calls[i][3].issuer = eidas_node_request_issuer
                     /\ sp[p].store_calls[i][3].requested_attributes =
                            adjust_requested_attributes(sp[p].saml_request.requested_attributes,
                                                        allowed_attributes)
                     /\ MANDATORY_ATTRIBUTE_NAMES \subseteq DOMAIN sp[p].store_calls[i][3].requested_attributes
                     /\ cache_get(request_cache, t.value.id) = <<dump_xml(sp[p].store_calls[i][3])>>

C6_Witness ==
    \E p \in Ops :
        /\ sp[p].pc = "done"
        /\ sp[p].status = 200
        /\ sp[p].light_token.id \in DOMAIN request_cache
        /\ "X" \notin DOMAIN load_xml(request_cache[sp[p].light_token.id]).requested_attributes
        /\ "X" \in DOMAIN sp[p].saml_request.requested_attributes

\* the token a view decoded with a valid digest, if it did
DecodedBy(view) ==
    LightToken_decode(view.encoded_token, response_token.hash_algorithm, response_token.secret)

\* C7 (as claimed): a token with a valid digest and the expected issuer is refused
\* as expired exactly when a non-zero lifetime is configured and created + lifetime
\* lies before the current time on the clock that stamped created (UTC).
C7_ExpiryOnIssuingClock ==
    \A p \in Ops :
        LET t == DecodedBy(cr[p])
        IN  (flight.stage = "presented" /\ cr[p].pc # "idle" /\ t.ok
             /\ t.value.issuer = response_token.issuer)
            => ((cr[p].raised = Raise("SecurityError", "Token has expired"))
                <=> (/\ Truthy(response_token.lifetime)
                     /\ t.value.created + timedelta_minutes(response_token.lifetime)
                            < flight.presented_at))

\* C8: a token with a valid digest whose issuer is not the configured one is refused
\* with SecurityError 'Invalid token issuer' (status 400), and the view makes no
\* store call.
C8_WrongIssuerRefused ==
    \A p \in Ops :
        LET t == DecodedBy(cr[p])
        IN  (cr[p].pc # "idle" /\ t.ok /\ t.value.issuer # response_token.issuer)
            => (/\ cr[p].pc = "done"
                /\ cr[p].raised = Raise("SecurityError", "Invalid token issuer")
                /\ cr[p].status = 400
                /\ cr[p].store_calls = << >>
                /\ cr[p].light_response = NoResponse)

\* C8 witness: the refused token names a key under which a response is waiting
C8_Witness ==
    \E p \in Ops :
        /\ cr[p].raised = Raise("SecurityError", "Invalid token issuer")
        /\ DecodedBy(cr[p]).ok
        /\ DecodedBy(cr[p]).value.id \in DOMAIN response_cache

SameTokenSettings ==
    /\ response_token.issuer = request_token_settings.issuer
    /\ response_token.hash_algorithm = request_token_settings.hash_algorithm
    /\ response_token.secret = request_token_settings.secret

truncated(token) ==
    [token EXCEPT !.created = (@ \div TicksPerStamp) * TicksPerStamp]

Expired(token) ==
    /\ Truthy(response_token.lifetime)
    /\ token.created + timedelta_minutes(response_token.lifetime) < flight.presented_at + tz

\* C9 (as claimed): decoding an encoded token gives back the token, and a token of
\* create_light_token is accepted by get_light_token under the same issuer,
\* algorithm and secret and returned equal to the issued token.
C9_RoundTripExact ==
    (flight.token # NoToken)
    => (/\ LightToken_decode(LightToken_encode(flight.token, "sha256", "s1"), "sha256", "s1")
               = Return(flight.token)
        /\ (flight.stage = "presented" /\ flight.changed = "none" /\ SameTokenSettings)
           => cr["a"].light_token = flight.token)

\* C9 (amended): decoding an encoded token gives back its id and issuer and its
\* created time cut to the precision of the wire timestamp; a token of
\* create_light_token is accepted by get_light_token under the same issuer, algorithm
\* and secret unless get_light_token finds it expired, and is returned with created
\* so cut.
C9_RoundTripUpToPrecision ==
    (flight.token # NoToken)
    => (/\ LightToken_decode(LightToken_encode(flight.token, "sha256", "s1"), "sha256", "s1")
               = Return(truncated(flight.token))
        /\ (flight.stage = "presented" /\ flight.changed = "none" /\ SameTokenSettings)
           => IF Expired(truncated(flight.token))
              THEN (cr["a"].raised = Raise("SecurityError", "Token has expired")
                    /\ cr["a"].light_token = NoToken)
              ELSE (cr["a"].light_token = truncated(flight.token)
                    /\ cr["a"].raised.msg \in {"", "Response not found in light storage.",
                                               "backend out of reach"}))

\* C9 witness: an accepted token whose created time was cut on the wire
C9_Witness ==
    /\ flight.stage = "presented"
    /\ flight.changed = "none"
    /\ SameTokenSettings
    /\ cr["a"].pc = "token_ok"
    /\ cr["a"].light_token = truncated(flight.token)
    /\ cr["a"].light_token # flight.token

ChangedClaimedField == flight.changed \in {"id", "issuer", "digest"}

\* C10 (as claimed): a changed byte in the digest, id or issuer field of an encoded
\* token makes decoding fail with SecurityError, and the view makes no store call.
C10_TamperIsSecurityError ==
    (flight.stage = "presented" /\ ChangedClaimedField)
    => (/\ cr["a"].raised.kind = "SecurityError"
        /\ cr["a"].store_calls = << >>)

\* C10 (amended): a changed byte in the digest, id or issuer field of an encoded
\* token makes decoding fail, with SecurityError (the digest does not match) unless
\* the byte became the field delimiter, when the part count is wrong and decoding
\* fails with ParseError; either way the view ends with status 400 and no store call.
C10_TamperRefused ==
    (flight.stage = "presented" /\ ChangedClaimedField)
    => (/\ cr["a"].pc = "done"
        /\ cr["a"].raised.kind =
               (IF flight.changed_to = Delimiter THEN "ParseError" ELSE "SecurityError")
        /\ cr["a"].raised.msg =
               (IF flight.changed_to = Delimiter THEN "Token has wrong number of parts"
                ELSE "Light token has invalid digest")
        /\ cr["a"].status = 400
        /\ cr["a"].store_calls = << >>
        /\ cr["a"].light_token = NoToken)

\* C10 witness: a token whose id was changed arrived under the settings it was
\* issued with, and was refused for its digest
C10_Witness ==
    /\ flight.stage = "presented"
    /\ flight.changed = "id"
    /\ flight.changed_to # Delimiter
    /\ SameTokenSettings
    /\ cr["a"].raised = Raise("SecurityError", "Light token has invalid digest")

\* the attributes the request view asked to be adjusted and the ones it holds after
\* adjust_requested_attributes (and stores, when it reaches the store)
Adjusted(view) == view.light_request.requested_attributes

ExampleRequest(view) ==
    /\ view.pc = "done"
    /\ view.status = 200
    /\ allowed_attributes = {"A", "B"}
    /\ view.saml_request.requested_attributes = [k \in {"A", "X"} |-> <<"v">>]

StoredUnder(view) == load_xml(request_cache[view.light_token.id]).requested_attributes

\* C11 (as claimed): with allow-list {A, B} and mandatory set {B, C}, a request asking
\* for {A, X} is stored with attributes {A: [...], C: []}.
C11_ExampleStoredAC ==
    ExampleRequest(sp["a"])
    => StoredUnder(sp["a"]) = [k \in {"A", "C"} |-> IF k = "A" THEN <<"v">> ELSE << >>]

\* C11 (amended): with allow-list {A, B} and mandatory set {B, C}, a request asking
\* for {A, X} is stored with attributes {A: [...], B: [], C: []}: X is dropped, the
\* mandatory B and C are both added empty.
C11_ExampleStoredABC ==
    ExampleRequest(sp["a"])
    => (/\ sp["a"].light_token.id \in DOMAIN request_cache
        /\ StoredUnder(sp["a"]) = [k \in {"A", "B", "C"} |-> IF k = "A" THEN <<"v">> ELSE << >>])

\* C11 witness: the example request was stored
C11_Witness ==
    /\ ExampleRequest(sp["a"])
    /\ "B" \in DOMAIN StoredUnder(sp["a"])
    /\ "X" \notin DOMAIN StoredUnder(sp["a"])

\* C12: after adjust_requested_attributes, whatever the requested map and the
\* allow-list, every mandatory name is a key; it keeps its requested values when it
\* was requested and not filtered out, and maps to the empty sequence otherwise.
C12_MandatoryAlwaysPresent ==
    (sp["a"].light_request # NoRequest)
    => LET asked == sp["a"].saml_request.requested_attributes
           got == Adjusted(sp["a"])
       IN  \A m \in MANDATORY_ATTRIBUTE_NAMES :
              /\ m \in DOMAIN got
              /\ got[m] = IF m \in DOMAIN asked /\ (allowed_attributes = {} \/ m \in allowed_attributes)
                          THEN asked[m] ELSE << >>

\* C12 witness: the allow-list holds no mandatory name, the mandatory B was
\* requested, removed by the filter and put back empty; the request was stored so
C12_Witness ==
    /\ sp["a"].pc = "done"
    /\ sp["a"].status = 200
    /\ allowed_attributes = {"A"}
    /\ "B" \in DOMAIN sp["a"].saml_request.requested_attributes
    /\ sp["a"].saml_request.requested_attributes["B"] = <<"v">>
    /\ StoredUnder(sp["a"])["B"] = << >>

\* C13: with a non-empty allow-list every key after adjust_requested_attributes is on
\* the allow-list or mandatory and every requested attribute on the allow-list is
\* kept with its values; with an empty allow-list every requested attribute is kept.
C13_AllowListFilter ==
    (sp["a"].light_request # NoRequest)
    => LET asked == sp["a"].saml_request.requested_attributes
           got == Adjusted(sp["a"])
           kept == IF allowed_attributes # {} THEN (DOMAIN asked) \cap allowed_attributes
                   ELSE DOMAIN asked
       IN  /\ allowed_attributes # {}
                => (DOMAIN got) \subseteq (allowed_attributes \cup MANDATORY_ATTRIBUTE_NAMES)
           /\ \A k \in kept : k \in DOMAIN got /\ got[k] = asked[k]

\* C13 witness: a non-empty allow-list dropped one requested attribute and kept another
C13_Witness ==
    /\ sp["a"].light_request # NoRequest
    /\ allowed_attributes = {"A", "C"}
    /\ DOMAIN sp["a"].saml_request.requested_attributes = {"A", "X"}
    /\ Adjusted(sp["a"])["A"] = <<"v">>
    /\ "X" \notin DOMAIN Adjusted(sp["a"])

\* the options as create_saml_response reads them
SigningConfigured ==
    /\ ~service_provider.response_signature.is_none
    /\ service_provider.response_signature.key_file # ""
    /\ service_provider.response_signature.cert_file # ""

EncryptionConfigured ==
    /\ ~service_provider.response_encryption.is_none
    /\ service_provider.response_encryption.cert_file # ""

Positions(steps, name) == {i \in 1..Len(steps) : steps[i] = name}

\* C14: in create_saml_response the response is encrypted before it is signed and no
\* signing step precedes encryption; when create_saml_response returns, the
\* assertion was encrypted exactly when the encryption options carry a cert_file,
\* the response was signed exactly when the signature options carry key_file and
\* cert_file, and with neither the response is produced all the same.
C14_EncryptThenSign ==
    LET steps == cr["a"].saml_steps
        signings == {i \in 1..Len(steps) : steps[i] \in {"sign_response", "sign_assertion"}}
    IN  /\ \A e \in Positions(steps, "encrypt_assertion") : \A g \in signings : e < g
        /\ Positions(steps, "encrypt_assertion") # {} => EncryptionConfigured
        /\ signings # {} => SigningConfigured
        /\ (cr["a"].pc = "done" /\ cr["a"].status = 200)
              => (/\ cr["a"].saml_response
                  /\ Cardinality(Positions(steps, "encrypt_assertion"))
                         = (IF EncryptionConfigured THEN 1 ELSE 0)
                  /\ Cardinality(signings) = (IF SigningConfigured THEN 1 ELSE 0)
                  /\ steps[1] = "from_light_response")

\* C14 witness: both are configured and the response was encrypted, then signed
C14_Witness ==
    /\ SigningConfigured
    /\ EncryptionConfigured
    /\ cr["a"].status = 200
    /\ cr["a"].saml_steps = <<"from_light_response", "encrypt_assertion", "sign_response">>

\* what the remote party sees of a finished request view
ObservableSP(view) == <<view.status, view.error, view.context>>

\* what the remote party sees of a finished response view
ObservableCR(view) == <<view.status, view.error>>

FailedSP(view) == view.pc = "done" /\ view.raised # NoResult

FailedCR(view) == view.pc = "done" /\ view.raised # NoResult

\* C15 (as claimed): any two failed operations of the same handler, whatever the
\* step and the kind of error (parse, security, missing POST parameter, store), show
\* the remote party the same response: HTTP 400 with the fixed error message and no
\* detail of the failed check.
C15_UniformRejection ==
    /\ \A p \in Ops :
          FailedSP(sp[p]) => ObservableSP(sp[p]) = <<400, "Bad service provider request.", {"error"}>>
    /\ \A p \in Ops :
          FailedCR(cr[p]) => ObservableCR(cr[p]) = <<400, "Bad connector response.">>
    /\ \A p, q \in Ops :
          /\ (FailedSP(sp[p]) /\ FailedSP(sp[q])) => ObservableSP(sp[p]) = ObservableSP(sp[q])
          /\ (FailedCR(cr[p]) /\ FailedCR(cr[q])) => ObservableCR(cr[p]) = ObservableCR(cr[q])

\* C15 failing input: one request is refused for its issuer, another finds the
\* backend out of reach; the two responses differ
C15_FailingInput ==
    \E p, q \in Ops :
        /\ FailedSP(sp[p]) /\ sp[p].raised.kind = "SecurityError" /\ sp[p].status = 400
        /\ FailedSP(sp[q]) /\ sp[q].raised.kind = "StoreError" /\ sp[q].status = 500

CallsOf(view, method) ==
    {i \in 1..Len(view.store_calls) : view.store_calls[i][1] = method}

\* the response view looked the request up: it is past get_light_request
LookedUp(view) == CallsOf(view, "get_light_request") # {}

CannotPair == Raise("SecurityError", "Cannot pair light response and request")

\* C16 (as claimed): a light response whose in-response-to id is prefix + R is
\* accepted only if a light request is stored under the key prefix + R; otherwise
\* create_light_response fails with SecurityError 'Cannot pair light response and
\* request', no response is stored and no token is issued.
C16_PairedUnderPrefixedKey ==
    \A p \in Ops :
        LookedUp(ip[p])
        => LET prefixed == ip[p].saml_response.in_response_to_id
           IN  /\ \A i \in CallsOf(ip[p], "get_light_request") :
                      ip[p].store_calls[i][2] = prefixed
               /\ ip[p].raised # CannotPair => prefixed \in DOMAIN request_cache
               /\ ip[p].raised = CannotPair
                      => (/\ CallsOf(ip[p], "put_light_response") = {}
                          /\ ip[p].light_token = NoToken)

\* C16 (amended): a light response whose in-response-to id is prefix + R is accepted
\* only if a light request is stored under the key R, the id without the prefix: the
\* view reads that key once, pairs the response with the request found there and
\* gives it the request's id as in-response-to id; when nothing is stored under R
\* create_light_response fails with SecurityError 'Cannot pair light response and
\* request' (status 400), no response is stored and no token is issued.
C16_PairedUnderStrippedKey ==
    \A p \in Ops :
        LookedUp(ip[p])
        => LET prefixed == ip[p].saml_response.in_response_to_id
               R == request_key(prefixed)
               gets == CallsOf(ip[p], "get_light_request")
           IN  /\ prefixed = TOKEN_ID_PREFIX \o R
               /\ Cardinality(gets) = 1
               /\ \A i \in gets :
                     /\ ip[p].store_calls[i][2] = R
                     /\ IF ip[p].store_calls[i][3]
                        THEN /\ R \in DOMAIN request_cache
                             /\ ip[p].raised # CannotPair
                             /\ ip[p].light_request = load_xml(request_cache[R])
                             /\ ip[p].light_response.in_response_to_id = ip[p].light_request.id
                        ELSE /\ ip[p].raised = CannotPair
                             /\ ip[p].status = 400
                             /\ CallsOf(ip[p], "put_light_response") = {}
                             /\ ip[p].light_token = NoToken
                             /\ ip[p].encoded_token = << >>

\* C16 witness: one response was paired with the request stored under R although
\* nothing is stored under prefix + R, another was refused because nothing was
\* stored under its R
C16_Witness ==
    \E p, q \in Ops :
        /\ ip[p].pc = "done" /\ ip[p].status = 200
        /\ ip[p].saml_response.in_response_to_id = <<"T", "r">>
        /\ <<"T", "r">> \notin DOMAIN request_cache
        /\ ip[q].raised = CannotPair
        /\ ip[q].saml_response.in_response_to_id = <<"T", "T", "r">>

\* C17: when the in-response-to id does not carry the token-id prefix the response
\* view fails with SecurityError 'Invalid in-response-to id' (status 400) and makes
\* no store call at all: no get, no put, and no token.
C17_PrefixCheckedBeforeLookup ==
    \A p \in Ops :
        (/\ ip[p].pc # "idle"
         /\ ip[p].saml_response # NoSAMLResponse
         /\ ~StartsWith(ip[p].saml_response.in_response_to_id, TOKEN_ID_PREFIX))
        => (/\ ip[p].pc = "done"
            /\ ip[p].raised = Raise("SecurityError", "Invalid in-response-to id")
            /\ ip[p].status = 400
            /\ ip[p].store_calls = << >>
            /\ ip[p].light_token = NoToken)

\* C17 witness: the id without prefix is a key the store holds, and was refused
C17_Witness ==
    \E p \in Ops :
        /\ ip[p].saml_response.in_response_to_id = <<"r">>
        /\ <<"r">> \in DOMAIN request_cache
        /\ ip[p].raised = Raise("SecurityError", "Invalid in-response-to id")

\* C18: for every light response the response view writes to the store, the id of
\* the stored response, the id of the token issued for it and the key of the put are
\* one value, and the put comes after the get of the paired request.
C18_ResponseKeyIdentity ==
    \A p \in Ops :
        \A i \in CallsOf(ip[p], "put_light_response") :
            LET t == LightToken_decode(ip[p].encoded_token, proxy_response_token.hash_algorithm,
                                       proxy_response_token.secret)
            IN  /\ t.ok
                /\ ip[p].store_calls[i][2] = t.value.id
                /\ ip[p].store_calls[i][3].id = t.value.id
                /\ StartsWith(t.value.id, TOKEN_ID_PREFIX)
                /\ cache_get(response_cache, t.value.id) = <<dump_xml(ip[p].store_calls[i][3])>>
                /\ \E g \in CallsOf(ip[p], "get_light_request") :
                       g < i /\ ip[p].store_calls[g][3]

\* C18 witness: a response was stored under the id of its token
C18_Witness ==
    \E p \in Ops :
        /\ ip[p].pc = "done"
        /\ ip[p].status = 200
        /\ ip[p].light_token.id \in DOMAIN response_cache
        /\ load_xml(response_cache[ip[p].light_token.id]).id = ip[p].light_token.id
        /\ ip[p].saml_response.id # ip[p].light_token.id

(* --------------------------------- C19 ---------------------------------- *)
\* the token is within the lifetime the response view allows, on the view's clock
WithinLifetime(token) ==
    ~(Truthy(response_token.lifetime)
      /\ truncated(token).created + timedelta_minutes(response_token.lifetime) < datetime_now)

\* C19 (as claimed): the token ServiceProviderRequestView issued for the request it
\* stored, posted to ConnectorResponseView before it expires, is accepted as a
\* token; the store call that follows, when answered, fails with SecurityError
\* 'Response not found in light storage.' (status 400) while no response is stored
\* under the token's id, and once a response with that id is stored it hands that
\* response to the view and removes it, so that a second presentation fails.
C19_EndToEnd ==
    [][\A p \in Ops :
          /\ (/\ cr[p].pc = "idle"
              /\ cr'[p].pc # "idle"
              /\ IssuedToken # << >>
              /\ cr'[p].encoded_token = IssuedToken
              /\ WithinLifetime(sp["a"].light_token))
             => (/\ cr'[p].pc = "token_ok"
                 /\ cr'[p].light_token.id = sp["a"].light_token.id)
          /\ (/\ cr[p].pc = "token_ok"
              /\ cr'[p].pc # "token_ok"
              /\ IssuedToken # << >>
              /\ cr[p].encoded_token = IssuedToken
              /\ cr'[p].raised.kind # "StoreError")
             => IF cr[p].light_token.id \in DOMAIN response_cache
                THEN /\ cr'[p].pc = "popped"
                     /\ cr'[p].light_response.id = cr[p].light_token.id
                     /\ cr[p].light_token.id \notin DOMAIN response_cache'
                ELSE /\ cr'[p].pc = "done"
                     /\ cr'[p].raised = ResponseNotFound
                     /\ cr'[p].status = 400]_vars

\* C19 failing input: under the docker settings the response view has refused the
\* token of the request view's page before any store call
C19_FailingInput ==
    \E p \in Ops :
        /\ response_token = docker_response_token
        /\ IssuedToken # << >>
        /\ cr[p].encoded_token = IssuedToken
        /\ cr[p].pc = "done"
        /\ cr[p].raised.kind = "SecurityError"
        /\ cr[p].raised # ResponseNotFound
        /\ cr[p].store_calls = << >>

(* --------------------------------- C20 ---------------------------------- *)
\* the light request the store holds under the key of the view's token
StoredRequest(view) == load_xml(request_cache[view.light_token.id])

\* C20 (as claimed): the light request a ServiceProviderRequestView stored does not
\* keep the id of the SAML request it was derived from, and its issuer is
\* CONNECTOR_EIDAS_NODE['REQUEST_ISSUER'].
C20_IdAndIssuerRewritten ==
    \A p \in Ops :
        (sp[p].pc = "done" /\ sp[p].status = 200)
        => (/\ StoredRequest(sp[p]).id # sp[p].saml_request.id
            /\ StoredRequest(sp[p]).issuer = eidas_node_request_issuer)

\* C20 (amended): the light request a ServiceProviderRequestView stored keeps the id
\* of the SAML request it was derived from; its issuer is
\* CONNECTOR_EIDAS_NODE['REQUEST_ISSUER'], while the issuer the SAML request stated
\* was CONNECTOR_SERVICE_PROVIDER['REQUEST_ISSUER'] and is not passed on.
C20_IssuerRewrittenIdKept ==
    \A p \in Ops :
        (sp[p].pc = "done" /\ sp[p].status = 200)
        => (/\ StoredRequest(sp[p]).id = sp[p].saml_request.id
            /\ StoredRequest(sp[p]).issuer = eidas_node_request_issuer
            /\ sp[p].saml_request.issuer = service_provider_request_issuer
            /\ StoredRequest(sp[p]).issuer # sp[p].saml_request.issuer)

\* C20 witness: a request stated by the service provider under its own issuer and
\* an id of its own has been stored
C20_Witness ==
    \E p \in Ops :
        /\ sp[p].pc = "done"
        /\ sp[p].status = 200
        /\ sp[p].saml_request.id # << >>
        /\ sp[p].saml_request.issuer = service_provider_request_issuer
        /\ sp[p].light_token.id \in DOMAIN request_cache
        /\ StoredRequest(sp[p]).id # sp[p].light_token.id

(* --------------------------------- C21 ---------------------------------- *)
\* the view built its light response: the request was found and paired
BuiltResponse(view) ==
    view.pc = "token_issued" \/ (view.pc = "done" /\ view.light_token # NoToken)

\* C21: the light response IdentityProviderResponseView built refers, in
\* in_response_to_id, to the id of the light request read from the store under the
\* request key (and not to the in-response-to id the assertion stated), and its
\* issuer is the configured response issuer, not the assertion's.
C21_InResponseToPairedRequest ==
    \A p \in Ops :
        BuiltResponse(ip[p])
        => LET key == request_key(ip[p].saml_response.in_response_to_id)
           IN  /\ key \in DOMAIN request_cache
               /\ ip[p].light_request = load_xml(request_cache[key])
               /\ ip[p].light_response.in_response_to_id = ip[p].light_request.id
               /\ ip[p].light_response.in_response_to_id # ip[p].saml_response.in_response_to_id
               /\ ip[p].light_response.issuer = proxy_service_response_issuer
               /\ ip[p].light_response.issuer # ip[p].saml_response.issuer

\* C21 witness: a response paired with a stored request has been stored
C21_Witness ==
    \E p \in Ops :
        /\ ip[p].pc = "done"
        /\ ip[p].status = 200
        /\ ip[p].light_token.id \in DOMAIN response_cache
        /\ load_xml(response_cache[ip[p].light_token.id]).in_response_to_id = ip[p].light_request.id

(* --------------------------------- C22 ---------------------------------- *)
\* C22: the token a ServiceProviderRequestView creates has as id the token-id prefix
\* followed by an identifier no token was given before, the configured issuer of
\* the request token and the UTC time of its creation; every key the view adds to
\* the request cache starts with the prefix (which the id of the SAML request stored
\* under it does not).
C22_TokenIdPrefix ==
    [][/\ \A p \in Ops :
             (sp[p].light_token = NoToken /\ sp'[p].light_token # NoToken)
             => (/\ sp'[p].light_token.id = TOKEN_ID_PREFIX \o uuid4
                 /\ StartsWith(sp'[p].light_token.id, TOKEN_ID_PREFIX)
                 /\ Len(sp'[p].light_token.id) > Len(TOKEN_ID_PREFIX)
                 /\ sp'[p].light_token.id \notin DOMAIN request_cache
                 /\ \A q \in Ops : sp[q].light_token.id # sp'[p].light_token.id
                 /\ sp'[p].light_token.issuer = request_token_settings.issuer
                 /\ sp'[p].light_token.created = datetime_utcnow)
       /\ \A k \in (DOMAIN request_cache') \ (DOMAIN request_cache) :
             /\ StartsWith(k, TOKEN_ID_PREFIX)
             /\ ~StartsWith(load_xml(request_cache'[k]).id, TOKEN_ID_PREFIX)]_vars

\* C22 witness: a token created after the clock had advanced is the key of a stored
\* request, next to a request stored earlier under another key
C22_Witness ==
    \E p \in Ops :
        /\ sp[p].pc = "done"
        /\ sp[p].status = 200
        /\ sp[p].light_token.created > 0
        /\ sp[p].light_token.id \in DOMAIN request_cache
        /\ \E k \in DOMAIN request_cache : k # sp[p].light_token.id

(* --------------------------------- C23 ---------------------------------- *)
\* the log id an operation takes when no operation ran before it in the process
FirstLogId == series_next(0)[1]

\* C23 (as claimed): no value an operation reads in the process was written by
\* another operation: the series stays as the module created it, and every view
\* holds the log id it would hold had no other operation run, whatever the
\* interleaving.
C23_NoSharedMutableState ==
    /\ log_id_series \in {0, FirstLogId}
    /\ \A p \in Ops : sp[p].pc # "idle" => sp[p].log_id = FirstLogId

\* C23 failing input: a second post took the number the first post left in
\* LOG_ID_SERIES
C23_FailingInput ==
    \E p, q \in Ops :
        /\ sp[p].pc # "idle"
        /\ sp[q].pc # "idle"
        /\ sp[p].log_id = FirstLogId
        /\ sp[q].log_id = series_next(sp[p].log_id)[1]

(* --------------------------------- C24 ---------------------------------- *)
StoreFailure(view) == view.pc = "done" /\ view.raised.kind = "StoreError"

Rejection(view) == view.pc = "done" /\ view.raised.kind \in {"ParseError", "SecurityError"}

\* C24: a view whose store call failed because the backend is out of reach ends
\* with the exception leaving post (status 500, no error page), which differs from
\* the ParseError/SecurityError rejection (status 400, error page); the view made
\* one attempt to connect and no store call after it.
C24_StoreFailureDistinctNoRetry ==
    /\ StoreFailure(sp["a"])
       => (/\ sp["a"].status = 500
           /\ sp["a"].error = None
           /\ sp["a"].context = {}
           /\ sp["a"].store_calls = <<<<"connect">>>>
           /\ sp["a"].light_token.id \notin DOMAIN request_cache)
    /\ Rejection(sp["a"])
       => (sp["a"].status = 400 /\ sp["a"].error = "Bad service provider request.")
    /\ StoreFailure(cr["a"])
       => (/\ cr["a"].status = 500
           /\ cr["a"].error = None
           /\ ~cr["a"].saml_response
           /\ cr["a"].store_calls = <<<<"connect">>>>)
    /\ Rejection(cr["a"])
       => (cr["a"].status = 400 /\ cr["a"].error = "Bad connector response.")

\* C24 witness: the store was out of reach for the request view, and for the
\* response view while a response was stored under the token's id
C24_Witness ==
    /\ StoreFailure(sp["a"])
    /\ StoreFailure(cr["a"])
    /\ cr["a"].light_token.id \in DOMAIN response_cache

(* --------------------------------- C25 ---------------------------------- *)
\* what the posted parameter is, judged apart from the view: it does not decode
\* (wrong number of parts, bad timestamp, wrong digest), or names another issuer,
\* or is older than the configured lifetime
Undecodable(encoded) ==
    ~LightToken_decode(encoded, response_token.hash_algorithm, response_token.secret).ok

ForeignIssuer(encoded) ==
    /\ ~Undecodable(encoded)
    /\ LightToken_decode(encoded, response_token.hash_algorithm,
                         response_token.secret).value.issuer # response_token.issuer

TooOld(encoded) ==
    /\ ~Undecodable(encoded)
    /\ Truthy(response_token.lifetime)
    /\ LightToken_decode(encoded, response_token.hash_algorithm,
                         response_token.secret).value.created
           + timedelta_minutes(response_token.lifetime) < datetime_now

BadToken(encoded) == Undecodable(encoded) \/ ForeignIssuer(encoded) \/ TooOld(encoded)

\* C25: ConnectorResponseView makes a store call only from the state in which
\* get_light_token has returned a token; a post whose token is malformed, has a
\* wrong digest, a wrong issuer or is expired ends with the error response without
\* any store call, and the response cache (the response under that token's id
\* included) is left as it was.
C25_ValidateBeforePop ==
    [][\A p \in Ops :
          /\ (cr[p].pc = "idle" /\ cr'[p].pc # "idle" /\ BadToken(cr'[p].encoded_token))
             => (/\ cr'[p].pc = "done"
                 /\ cr'[p].status = 400
                 /\ cr'[p].raised.kind \in {"ParseError", "SecurityError"}
                 /\ cr'[p].store_calls = << >>
                 /\ response_cache' = response_cache
                 /\ delivered' = delivered)
          /\ (cr'[p].store_calls # cr[p].store_calls /\ cr'[p].store_calls # << >>)
             => (/\ cr[p].pc = "token_ok"
                 /\ cr[p].light_token # NoToken
                 /\ ~Undecodable(cr[p].encoded_token)
                 /\ ~ForeignIssuer(cr[p].encoded_token))]_vars

\* C25 witness: an expired token was refused while a response was stored under its
\* id, and the response is still there
C25_Witness ==
    /\ cr["a"].pc = "done"
    /\ cr["a"].raised = Raise("SecurityError", "Token has expired")
    /\ cr["a"].store_calls = << >>
    /\ LightToken_decode(cr["a"].encoded_token, response_token.hash_algorithm,
                         response_token.secret).value.id \in DOMAIN response_cache

(* --------------------------------- C26 ---------------------------------- *)
\* C26 (as claimed): when create_saml_response fails after the view obtained the
\* light response from the store, the response is available in the store, under
\* the token's id, when the operation ends.
C26_ErrorLeavesStoreUntouched ==
    [][\A p \in Ops :
          (cr[p].pc = "popped" /\ cr'[p].pc = "done" /\ cr'[p].raised # NoResult)
          => /\ cr[p].light_token.id \in DOMAIN response_cache'
             /\ load_xml(response_cache'[cr[p].light_token.id]).id = cr[p].light_response.id]_vars

\* C26 failing input: the adapter failed after the only copy of the response had
\* been taken out of the store
C26_FailingInput ==
    /\ cr["a"].pc = "done"
    /\ cr["a"].status = 400
    /\ cr["a"].raised = Raise("SecurityError", "Cannot build the SAML response")
    /\ cr["a"].light_response # NoResponse
    /\ delivered[cr["a"].light_token.id] = 1
    /\ cr["a"].light_token.id \notin DOMAIN response_cache

(* --------------------------------- C27 ---------------------------------- *)
\* the posted parameter, judged field by field
Parts(encoded) == Split(encoded)

BadStructure(encoded) ==
    Len(Parts(encoded)) # 4 \/ ~parse_created(Parts(encoded)[3]).ok

StatedToken(encoded) ==
    LightToken(Parts(encoded)[1], Parts(encoded)[2], parse_created(Parts(encoded)[3]).value)

BadDigest(encoded) ==
    Parts(encoded)[4] # LightToken_digest(StatedToken(encoded), response_token.hash_algorithm,
                                          response_token.secret)

WrongIssuer(encoded) == StatedToken(encoded).issuer # response_token.issuer

PastLifetime(encoded) ==
    /\ Truthy(response_token.lifetime)
    /\ StatedToken(encoded).created + timedelta_minutes(response_token.lifetime)
           < flight.presented_at + tz

\* C27: get_light_token checks the structure of the posted token first (number of
\* parts, timestamp: ParseError), then the digest, then the issuer, then the age:
\* the first check that fails names the error, whatever the later ones would say.
\* A post without the token parameter fails with ParseError 'Token has wrong number
\* of parts'; a token with a wrong issuer that is also expired fails with 'Invalid
\* token issuer'.
C27_OrderOfTokenChecks ==
    (flight.stage = "presented" /\ cr["a"].pc # "idle")
    => LET encoded == cr["a"].encoded_token
           raised == cr["a"].raised
       IN  /\ encoded = << >> => raised = Raise("ParseError", "Token has wrong number of parts")
           /\ BadStructure(encoded) => raised.kind = "ParseError"
           /\ (/\ ~BadStructure(encoded)
               /\ Parts(encoded)[1] # << >>
               /\ Parts(encoded)[2] # << >>)
              => /\ BadDigest(encoded)
                    => raised = Raise("SecurityError", "Light token has invalid digest")
                 /\ (~BadDigest(encoded) /\ WrongIssuer(encoded))
                    => raised = Raise("SecurityError", "Invalid token issuer")
                 /\ (~BadDigest(encoded) /\ ~WrongIssuer(encoded) /\ PastLifetime(encoded))
                    => raised = Raise("SecurityError", "Token has expired")
                 /\ (~BadDigest(encoded) /\ ~WrongIssuer(encoded) /\ ~PastLifetime(encoded))
                    => cr["a"].light_token = StatedToken(encoded)

\* C27 witness: a token with a right digest, a wrong issuer and past its lifetime
\* was refused for its issuer
C27_Witness ==
    /\ flight.stage = "presented"
    /\ cr["a"].pc = "done"
    /\ ~BadStructure(cr["a"].encoded_token)
    /\ ~BadDigest(cr["a"].encoded_token)
    /\ WrongIssuer(cr["a"].encoded_token)
    /\ PastLifetime(cr["a"].encoded_token)
    /\ cr["a"].raised = Raise("SecurityError", "Invalid token issuer")

(* --------------------------------- C28 ---------------------------------- *)
CallsNamed(name) == {i \in 1..Len(ignite.calls) : ignite.calls[i][1] = name}

\* C28 (as claimed): the new instance has called nothing; whatever calls are made
\* on it, by one thread or by two at once, one client is created and connect is
\* called once, and every cache is taken from that client after its connect.
C28_LazySingleConnection ==
    /\ ignite.ops = 0 => (ignite.calls = << >> /\ ignite.client = 0)
    /\ ignite.created <= 1
    /\ Cardinality(CallsNamed("Client")) <= 1
    /\ Cardinality(CallsNamed("connect")) <= 1
    /\ \A i \in CallsNamed("get_cache") :
           /\ ignite.calls[i][2] = 1
           /\ \E j \in 1..(i - 1) : ignite.calls[j] = <<"connect", 1>>

\* C28 failing input: two threads made their first call at once and each created a
\* client
C28_FailingInput ==
    /\ ignite.created = 2
    /\ ignite.ops = 2
    /\ Cardinality(CallsNamed("Client")) = 2

(* --------------------------------- C29 ---------------------------------- *)
\* the puts made so far on a cache under a key, as positions in the calls
PutsOn(name, uid) ==
    {i \in 1..Len(ignite.calls) :
        /\ ignite.calls[i][1] = "put"
        /\ ignite.calls[i][2] = name
        /\ ignite.calls[i][3] = uid}

LastPutOn(name, uid) ==
    ignite.calls[CHOOSE i \in PutsOn(name, uid) : \A j \in PutsOn(name, uid) : j <= i][4]

\* thread t completes its call in this step
Completes(t, method) ==
    /\ ignite.thread[t].pc = "access"
    /\ ignite.thread[t].op.method = method
    /\ ignite'.thread[t].pc = "idle"

RequestMethods == {"get_light_request", "put_light_request"}

ResponseMethods == {"get_light_response", "put_light_response"}

\* the calls a step adds to what was called on pyignite, and the cache each names
NewCalls == SubSeq(ignite'.calls, Len(ignite.calls) + 1, Len(ignite'.calls))

NameOf(called) == IF called[1] = "get_cache" THEN called[3] ELSE called[2]

\* C30: get_light_request and put_light_request take the cache named
\* request_cache_name and leave the response cache as it is; get_light_response and
\* put_light_response take the cache named response_cache_name and leave the
\* request cache as it is; a get returns what its own cache holds under the key,
\* whatever the other cache holds under the same key.
C30_CacheSeparation ==
    [][\A t \in Threads :
          LET op == ignite.thread[t].op
              result == ignite'.thread[t].result
          IN  /\ (\E m \in RequestMethods : Completes(t, m))
                 => /\ response_cache' = response_cache
                    /\ \A i \in 1..Len(NewCalls) : NameOf(NewCalls[i]) = request_cache_name
              /\ (\E m \in ResponseMethods : Completes(t, m))
                 => /\ request_cache' = request_cache
                    /\ \A i \in 1..Len(NewCalls) : NameOf(NewCalls[i]) = response_cache_name
              /\ Completes(t, "get_light_request")
                 => result.value = get_light_request_from(request_cache, op.uid)
              /\ Completes(t, "get_light_response")
                 => result.value = get_light_response_from(response_cache, op.uid)]_vars

\* C30 witness: a request and a response are stored under the same key, and a get
\* of the request returned the request
C30_Witness ==
    \E t \in Threads, k \in StorageKeys :
        /\ k \in DOMAIN request_cache
        /\ k \in DOMAIN response_cache
        /\ request_cache[k] # response_cache[k]
        /\ ignite.thread[t].pc = "idle"
        /\ ignite.thread[t].op.method = "get_light_request"
        /\ ignite.thread[t].op.uid = k
        /\ ignite.thread[t].result.ok
        /\ ignite.thread[t].result.value = <<load_xml(request_cache[k])>>

(* --------------------------------- C31 ---------------------------------- *)
\* C31: adjust_requested_attributes applied to the attributes it produced, with the
\* same allow-list, gives them back: the same names, each with the same values.
C31_AdjustIdempotent ==
    (sp["a"].light_request # NoRequest)
    => LET once == Adjusted(sp["a"])
           twice == adjust_requested_attributes(once, allowed_attributes)
       IN  /\ DOMAIN twice = DOMAIN once
           /\ \A k \in DOMAIN once : twice[k] = once[k]

\* C31 witness: the first application dropped a name and emptied a mandatory name
\* that the allow-list does not hold, which a second application removes and puts
\* back
C31_Witness ==
    /\ sp["a"].light_request # NoRequest
    /\ allowed_attributes # {}
    /\ \E m \in MANDATORY_ATTRIBUTE_NAMES \ allowed_attributes :
           /\ m \in DOMAIN sp["a"].saml_request.requested_attributes
           /\ Adjusted(sp["a"])[m] = << >>
    /\ \E k \in DOMAIN sp["a"].saml_request.requested_attributes : k \notin DOMAIN Adjusted(sp["a"])

=============================================================================
